---------------------------- MODULE Spec2Model ----------------------------
(***************************************************************************)
(* A model of the image-mcp example server (mcp_image_ocr): the resource   *)
(* manager (the in-memory index and the cache directory), the image        *)
(* sources, the text extractors, and the tool / prompt / resource          *)
(* handlers of the server.                                                 *)
(*                                                                         *)
(* Conventions.  Python strings are TLA+ strings; an f-string is a         *)
(* concatenation (\o).  Bytes are sequences of numbers 0..255.  An         *)
(* optional value (None, or a dict key that is not set yet) is the empty   *)
(* sequence <<>>, a present value v is <<v>>.  A float is an exact         *)
(* fraction [n, d] in lowest terms.  A call's outcome is a record          *)
(* [ok, val]: ok = TRUE and the returned value, or ok = FALSE and the      *)
(* message of the raised exception (str(e)).                               *)
(***************************************************************************)
EXTENDS Integers, Sequences, FiniteSets, TLC

\* ------------------------------------------------------------------ bounds

\* How many uuid4() values the model can draw (the size of the index).
MaxIds == 2
\* The longest byte string a source can deliver.
MaxImageLen == 2

\* implementations.py:23, MAX_IMAGE_SIZE, read from IMAGE_MCP_MAX_IMAGE_SIZE:
\* the model runs the server configured with a maximum of one byte.
MAX_IMAGE_SIZE == 1

\* ------------------------------------------------------- values and strings

None == <<>>
Some(v) == <<v>>
IsNone(o) == o = <<>>
Get(o) == o[1]

StartsWith(s, p) == Len(s) >= Len(p) /\ SubSeq(s, 1, Len(p)) = p
EndsWith(s, p) == Len(s) >= Len(p) /\ SubSeq(s, Len(s) - Len(p) + 1, Len(s)) = p
\* s[n:]
DropPrefix(s, n) == SubSeq(s, n + 1, Len(s))
CharAt(s, i) == SubSeq(s, i, i)

\* str(n) for n >= 0.
RECURSIVE IntToStr(_)
IntToStr(n) ==
    IF n < 10 THEN CharAt("0123456789", n + 1)
    ELSE IntToStr(n \div 10) \o CharAt("0123456789", (n % 10) + 1)

\* str.strip(): leading and trailing whitespace removed.
IsSpace(c) == c \in {" ", "\n", "\t"}
RECURSIVE LStrip(_)
LStrip(s) ==
    IF Len(s) > 0 /\ IsSpace(CharAt(s, 1)) THEN LStrip(DropPrefix(s, 1)) ELSE s
RECURSIVE RStrip(_)
RStrip(s) ==
    IF Len(s) > 0 /\ IsSpace(CharAt(s, Len(s)))
    THEN RStrip(SubSeq(s, 1, Len(s) - 1)) ELSE s
Strip(s) == RStrip(LStrip(s))

\* Fractions.
RECURSIVE Gcd(_, _)
Gcd(a, b) == IF b = 0 THEN a ELSE Gcd(b, a % b)
Frac(n, d) == LET g == Gcd(n, d) IN [n |-> n \div g, d |-> d \div g]
FracLeq(a, b) == a.n * b.d <= b.n * a.d
Zero == Frac(0, 1)

\* f"{x:.2f}" for a fraction x >= 0 (half rounds up).
Fmt2f(x) ==
    LET h == (x.n * 200 + x.d) \div (2 * x.d)
        c == h % 100
    IN  IntToStr(h \div 100) \o "." \o IntToStr(c \div 10) \o IntToStr(c % 10)

Ok(v) == [ok |-> TRUE, val |-> v]
Raise(msg) == [ok |-> FALSE, val |-> msg]

\* base64.b64encode(data).decode('utf-8')
B64Alphabet == "ABCDEFGHIJKLMNOPQRSTUVWXYZabcdefghijklmnopqrstuvwxyz0123456789+/"
B64Char(v) == CharAt(B64Alphabet, v + 1)
RECURSIVE B64Encode(_)
B64Encode(data) ==
    IF Len(data) = 0 THEN ""
    ELSE IF Len(data) = 1 THEN
        B64Char(data[1] \div 4) \o B64Char((data[1] % 4) * 16) \o "=="
    ELSE IF Len(data) = 2 THEN
        B64Char(data[1] \div 4)
        \o B64Char((data[1] % 4) * 16 + data[2] \div 16)
        \o B64Char((data[2] % 16) * 4) \o "="
    ELSE
        B64Char(data[1] \div 4)
        \o B64Char((data[1] % 4) * 16 + data[2] \div 16)
        \o B64Char((data[2] % 16) * 4 + data[3] \div 64)
        \o B64Char(data[3] % 64)
        \o B64Encode(SubSeq(data, 4, Len(data)))

\* ------------------------------------------------------------ the outside

\* implementations.py 22
SUPPORTED_FORMATS == {"image/jpeg", "image/jpg", "image/png"}

\* The byte value the modelled sources deliver ("M"), and the bodies and
\* files they deliver: one byte and more.
ByteVals == {77}
ImageBytes == UNION {[1..n -> ByteVals] : n \in 1..MaxImageLen}

\* str(uuid.uuid4()): the generator never returns a value twice; the pool
\* lists its values in the order they are drawn.
UuidPool == <<"uuid-1", "uuid-2", "uuid-3", "uuid-4">>
Uuids == {UuidPool[i] : i \in 1..MaxIds}

\* datetime.now().isoformat()
Timestamps == {"2025-01-01T00:00:00"}

\* What an HTTP GET can come back with: a connection failure, a non-success
\* status, or a response with a content-type header and a body.
HeaderTypes == {"image/png", "text/html"}
HttpResponses ==
    {[status |-> s, content_type |-> "", content |-> <<>>] :
        s \in {"connect_error", "http_error"}}
    \cup {[status |-> "ok", content_type |-> t, content |-> b] :
            t \in HeaderTypes, b \in ImageBytes}
\* The responses that differ in what a download makes of them: the body of a
\* response whose type is refused is not read.
Responses ==
    {r \in HttpResponses :
        r.content_type \in SUPPORTED_FORMATS \/ r.content = <<>>}

\* What the file system holds at an absolute path at the time of a call.
\* Relative paths are taken not to exist in the working directory.
FileStates ==
    {[exists |-> FALSE, data |-> <<>>]} \cup [exists : {TRUE}, data : ImageBytes]
PathExists(path, file) == StartsWith(path, "/") /\ file.exists

\* mimetypes.guess_type(path)[0]
GuessType(path) ==
    IF EndsWith(path, ".png") THEN Some("image/png")
    ELSE IF EndsWith(path, ".jpg") \/ EndsWith(path, ".jpeg") THEN Some("image/jpeg")
    ELSE IF EndsWith(path, ".txt") THEN Some("text/plain")
    ELSE None

\* The source descriptors callers pass to the two ingest operations.
Descriptors ==
    {"http://h/a.png", "file:///a.jpg", "/a.jpg", "/c.txt"}

\* ---------------------------------------------------------- image sources

\* Python truthiness of an optional bytes / str / dict attribute.
Truthy(o) == ~IsNone(o) /\ Len(Get(o)) > 0

\* WebImageSource.__init__
WebImageSource(url) ==
    [kind |-> "web", loc |-> url, data |-> None, content_type |-> None,
     metadata |-> None]

\* A download that refuses a body of exactly the maximum size.
WebDownloadStrict(src, resp, now) ==
    IF Truthy(src.data) THEN [src |-> src, out |-> Ok(Get(src.data))]
    ELSE IF resp.status = "connect_error" THEN
        [src |-> src, out |-> Raise("All connection attempts failed")]
    ELSE IF resp.status = "http_error" THEN
        [src |-> src, out |-> Raise("Client error '404 Not Found' for url '" \o src.loc \o "'")]
    ELSE
        LET s1 == [src EXCEPT !.content_type = Some(resp.content_type)]
        IN  IF resp.content_type \notin SUPPORTED_FORMATS THEN
                [src |-> s1,
                 out |-> Raise("Unsupported image format: " \o resp.content_type)]
            ELSE
                LET s2 == [s1 EXCEPT !.data = Some(resp.content)]
                IN  IF Len(resp.content) >= MAX_IMAGE_SIZE THEN
                        [src |-> s2,
                         out |-> Raise("Image too large: " \o IntToStr(Len(resp.content)) \o " bytes")]
                    ELSE
                        [src |-> [s2 EXCEPT !.metadata =
                                     Some([uri |-> src.loc,
                                           content_type |-> resp.content_type,
                                           size |-> Len(resp.content),
                                           time |-> now])],
                         out |-> Ok(resp.content)]

\* WebImageSource.download: the source after the call, and the outcome.
WebDownload(src, resp, now) ==
    IF Truthy(src.data) THEN [src |-> src, out |-> Ok(Get(src.data))]
    ELSE IF resp.status = "connect_error" THEN
        [src |-> src, out |-> Raise("All connection attempts failed")]
    ELSE IF resp.status = "http_error" THEN
        [src |-> src, out |-> Raise("Client error '404 Not Found' for url '" \o src.loc \o "'")]
    ELSE
        LET s1 == [src EXCEPT !.content_type = Some(resp.content_type)]
        IN  IF resp.content_type \notin SUPPORTED_FORMATS THEN
                [src |-> s1,
                 out |-> Raise("Unsupported image format: " \o resp.content_type)]
            ELSE
                LET s2 == [s1 EXCEPT !.data = Some(resp.content)]
                IN  IF Len(resp.content) > MAX_IMAGE_SIZE THEN
                        [src |-> s2,
                         out |-> Raise("Image too large: " \o IntToStr(Len(resp.content)) \o " bytes")]
                    ELSE
                        [src |-> [s2 EXCEPT !.metadata =
                                     Some([uri |-> src.loc,
                                           content_type |-> resp.content_type,
                                           size |-> Len(resp.content),
                                           time |-> now])],
                         out |-> Ok(resp.content)]

\* LocalImageSource.__init__
LocalImageSource(path) ==
    [kind |-> "local", loc |-> path, data |-> None, content_type |-> None,
     metadata |-> None]

\* LocalImageSource.download
LocalDownload(src, file, now) ==
    IF Truthy(src.data) THEN [src |-> src, out |-> Ok(Get(src.data))]
    ELSE IF ~PathExists(src.loc, file) THEN
        [src |-> src, out |-> Raise("Image file not found: " \o src.loc)]
    ELSE
        LET ct == GuessType(src.loc)
        IN  IF IsNone(ct) \/ Get(ct) \notin SUPPORTED_FORMATS THEN
                [src |-> src,
                 out |-> Raise("Unsupported image format: "
                               \o (IF IsNone(ct) THEN "None" ELSE Get(ct)))]
            ELSE
                LET s1 == [src EXCEPT !.data = Some(file.data)]
                IN  IF Len(file.data) > MAX_IMAGE_SIZE THEN
                        [src |-> s1,
                         out |-> Raise("Image too large: " \o IntToStr(Len(file.data)) \o " bytes")]
                    ELSE
                        [src |-> [s1 EXCEPT !.metadata =
                                     Some([uri |-> "file://" \o src.loc,
                                           content_type |-> Get(ct),
                                           size |-> Len(file.data),
                                           time |-> now])],
                         out |-> Ok(file.data)]

\* ImageSource.download, by the variant of the instance.
Download(src, resp, file, now) ==
    IF src.kind = "web" THEN WebDownload(src, resp, now)
    ELSE LocalDownload(src, file, now)

\* WebImageSource.get_metadata / LocalImageSource.get_metadata
GetMetadata(src) ==
    IF ~IsNone(src.metadata) THEN Ok(Get(src.metadata))
    ELSE IF src.kind = "web" THEN Raise("Image not yet downloaded")
    ELSE Raise("Image not yet read")

\* A factory that hands the descriptor to the local source as it is.
CreateImageSourceNoStrip(uri, file) ==
    IF StartsWith(uri, "http://") \/ StartsWith(uri, "https://") THEN
        Ok(WebImageSource(uri))
    ELSE IF StartsWith(uri, "file://") \/ PathExists(uri, file) THEN
        Ok(LocalImageSource(uri))
    ELSE Raise("Unsupported image source: " \o uri)

\* ImageSourceFactory.create_image_source
CreateImageSource(uri, file) ==
    IF StartsWith(uri, "http://") \/ StartsWith(uri, "https://") THEN
        Ok(WebImageSource(uri))
    ELSE IF StartsWith(uri, "file://") \/ PathExists(uri, file) THEN
        Ok(LocalImageSource(IF StartsWith(uri, "file://") THEN DropPrefix(uri, 7) ELSE uri))
    ELSE Raise("Unsupported image source: " \o uri)

\* --------------------------------------------------------- text extractors

\* What one engine call (pytesseract.image_to_string / image_to_data) does:
\* it returns a value or throws.
EngineText == {"", " \n", "HELLO\n"}
AttemptOutcomes == {Ok(t) : t \in EngineText} \cup {Raise("tesseract failed")}
\* data["conf"] of image_to_data: one score per token, -1 for a non-text box.
ConfLists == {<<>>, <<-1>>, <<-1, 90, 70>>, <<0>>}
DataOutcomes == {Ok(c) : c \in ConfLists} \cup {Raise("tesseract failed")}

\* The behaviour of the imaging library and the OCR engine during one
\* extract_text call: whether Image.open / convert / save succeed, the
\* default attempt, the token data, the four --psm attempts (6, 3, 4, 11 in
\* this order), and whether os.remove of the temporary file succeeds.
ScriptOf(open, direct, data, psm, remove) ==
    [open |-> open, direct |-> direct, data |-> data, psm |-> psm, remove |-> remove]

psm_modes == <<6, 3, 4, 11>>
NO_TEXT == "No readable text found in the image."
DEFAULT_CONFIDENCE == Frac(50, 1)

RECURSIVE SumSeq(_)
SumSeq(s) == IF Len(s) = 0 THEN 0 ELSE Head(s) + SumSeq(Tail(s))
\* [float(c) for c in data["conf"] if float(c) >= 0]
NonNegative(s) == SelectSeq(s, LAMBDA c : c >= 0)
Mean(s) == Frac(SumSeq(s), Len(s))

\* TesseractTextExtractor.__init__
TesseractTextExtractor ==
    [kind |-> "tesseract", last_confidence |-> Zero, last_text |-> "",
     api_key |-> FALSE, endpoint |-> FALSE]

\* A confidence block that forgets to divide the sum by the number of scores.
DirectConfidenceSum(ex, data) ==
    IF ~data.ok THEN DEFAULT_CONFIDENCE
    ELSE IF Len(data.val) > 0 THEN
        LET conf_values == NonNegative(data.val)
        IN  IF Len(conf_values) > 0 THEN Frac(SumSeq(conf_values), 1)
            ELSE DEFAULT_CONFIDENCE
    ELSE ex.last_confidence

\* The confidence block of the default attempt (implementations.py 150-162).
DirectConfidence(ex, data) ==
    IF ~data.ok THEN DEFAULT_CONFIDENCE
    ELSE IF Len(data.val) > 0 THEN
        LET conf_values == NonNegative(data.val)
        IN  IF Len(conf_values) > 0 THEN Mean(conf_values) ELSE DEFAULT_CONFIDENCE
    ELSE ex.last_confidence

\* The index of the first --psm attempt that yields non-blank text, 0 if none.
RECURSIVE FirstPsm(_, _)
FirstPsm(psm, i) ==
    IF i > Len(psm) THEN 0
    ELSE IF psm[i].ok /\ Len(psm[i].val) > 0 /\ Len(Strip(psm[i].val)) > 0 THEN i
    ELSE FirstPsm(psm, i + 1)

\* An extract_text that raises when no attempt finds text.
TesseractExtractTextOrRaise(ex, image_data, script, temp) ==
    IF ~script.open THEN
        [ex |-> [ex EXCEPT !.last_confidence = Zero,
                           !.last_text = "Error extracting text: cannot identify image file"],
         out |-> Ok("Error extracting text: cannot identify image file"),
         temp |-> temp, attempts |-> 0]
    ELSE IF script.direct.ok /\ Len(script.direct.val) > 0
            /\ Len(Strip(script.direct.val)) > 0 THEN
        [ex |-> [ex EXCEPT !.last_confidence = DirectConfidence(ex, script.data),
                           !.last_text = script.direct.val],
         out |-> Ok(script.direct.val), temp |-> TRUE, attempts |-> 1]
    ELSE
        LET k == FirstPsm(script.psm, 1)
        IN  IF k > 0 THEN
                [ex |-> [ex EXCEPT !.last_confidence = DEFAULT_CONFIDENCE,
                                   !.last_text = script.psm[k].val],
                 out |-> Ok(script.psm[k].val), temp |-> TRUE, attempts |-> 1 + k]
            ELSE
                [ex |-> [ex EXCEPT !.last_confidence = Zero, !.last_text = NO_TEXT],
                 out |-> Raise(NO_TEXT), temp |-> ~script.remove,
                 attempts |-> 1 + Len(script.psm)]

\* TesseractTextExtractor.extract_text: the extractor after the call, the
\* outcome, whether temp_ocr_image.png exists afterwards, and the number of
\* image_to_string calls made.
TesseractExtractText(ex, image_data, script, temp) ==
    IF ~script.open THEN
        [ex |-> [ex EXCEPT !.last_confidence = Zero,
                           !.last_text = "Error extracting text: cannot identify image file"],
         out |-> Ok("Error extracting text: cannot identify image file"),
         temp |-> temp, attempts |-> 0]
    ELSE IF script.direct.ok /\ Len(script.direct.val) > 0
            /\ Len(Strip(script.direct.val)) > 0 THEN
        [ex |-> [ex EXCEPT !.last_confidence = DirectConfidence(ex, script.data),
                           !.last_text = script.direct.val],
         out |-> Ok(script.direct.val), temp |-> TRUE, attempts |-> 1]
    ELSE
        LET k == FirstPsm(script.psm, 1)
        IN  IF k > 0 THEN
                [ex |-> [ex EXCEPT !.last_confidence = DEFAULT_CONFIDENCE,
                                   !.last_text = script.psm[k].val],
                 out |-> Ok(script.psm[k].val), temp |-> TRUE, attempts |-> 1 + k]
            ELSE
                [ex |-> [ex EXCEPT !.last_confidence = Zero, !.last_text = NO_TEXT],
                 out |-> Ok(NO_TEXT), temp |-> ~script.remove,
                 attempts |-> 1 + Len(script.psm)]

\* AzureTextExtractor.__init__: the two credentials are read from the
\* environment (TRUE: set to a non-empty value).
AzureTextExtractor(creds) ==
    [kind |-> "azure", last_confidence |-> Zero, last_text |-> "",
     api_key |-> creds.api_key, endpoint |-> creds.endpoint]

\* An extract_text that asks for one credential only.
AzureExtractTextEither(ex, image_data) ==
    IF ~ex.api_key /\ ~ex.endpoint THEN
        [ex |-> ex, out |-> Raise("Azure credentials not configured")]
    ELSE
        [ex |-> [ex EXCEPT !.last_text = "Azure OCR implementation placeholder",
                           !.last_confidence = Frac(9, 10)],
         out |-> Ok("Azure OCR implementation placeholder")]

\* AzureTextExtractor.extract_text
AzureExtractText(ex, image_data) ==
    IF ~ex.api_key \/ ~ex.endpoint THEN
        [ex |-> ex, out |-> Raise("Azure credentials not configured")]
    ELSE
        [ex |-> [ex EXCEPT !.last_text = "Azure OCR implementation placeholder",
                           !.last_confidence = Frac(9, 10)],
         out |-> Ok("Azure OCR implementation placeholder")]

\* TextExtractor.extract_text, by the variant of the instance.
ExtractText(ex, image_data, script, temp) ==
    IF ex.kind = "tesseract" THEN TesseractExtractText(ex, image_data, script, temp)
    ELSE AzureExtractText(ex, image_data) @@ [temp |-> temp, attempts |-> 0]

\* TextExtractor.get_confidence_score
GetConfidenceScore(ex) == ex.last_confidence

\* TextExtractorFactory.create_extractor
CreateExtractor(extractor_type, creds) ==
    IF extractor_type = "tesseract" THEN Ok(TesseractTextExtractor)
    ELSE IF extractor_type = "azure" THEN Ok(AzureTextExtractor(creds))
    ELSE Raise("Unsupported text extractor: " \o extractor_type)

\* ------------------------------------------------------- resource manager

\* ResourceManager.__init__: the cache directory.
cache_dir == "./.image_cache"

\* The store a call works on: the index self.resources (a dict: the mapping
\* res and its insertion order ord), the files of the cache directory (path
\* to content), whether the extractor's temporary file exists, and the values
\* uuid.uuid4() has returned so far.
EmptyStore ==
    [res |-> <<>>, ord |-> <<>>, files |-> <<>>, temp |-> FALSE, issued |-> {}]

\* A store that replaces the index by the new entry (self.resources = {k: v}).
DictReplace(st, k, v) == [st EXCEPT !.res = (k :> v), !.ord = <<k>>]

\* d[k] = v on a Python dict: a new key goes last, a known key keeps its place.
DictSet(st, k, v) ==
    [st EXCEPT !.res = (k :> v) @@ st.res,
               !.ord = IF k \in DOMAIN st.res THEN st.ord ELSE Append(st.ord, k)]

\* with open(cache_path, "wb") as f: f.write(image_data). The write can fail
\* (io = "open_fail": nothing is created; "write_fail": the file is created and
\* holds only the first `written` bytes).
WriteFile(st, path, data, io) ==
    IF io.result = "ok" THEN
        [st |-> [st EXCEPT !.files = (path :> data) @@ st.files], out |-> Ok(TRUE)]
    ELSE IF io.result = "open_fail" THEN
        [st |-> st, out |-> Raise("[Errno 13] Permission denied: '" \o path \o "'")]
    ELSE
        [st |-> [st EXCEPT !.files =
                    (path :> SubSeq(data, 1, IF io.written < Len(data) THEN io.written ELSE 0))
                    @@ st.files],
         out |-> Raise("[Errno 28] No space left on device")]

\* with open(cache_path, "rb") as f: f.read()
ReadFile(st, path, readable) ==
    IF path \in DOMAIN st.files /\ readable THEN Ok(st.files[path])
    ELSE Raise("[Errno 2] No such file or directory: '" \o path \o "'")

\* A store that names a resource after its source (content-addressed ids):
\* resource_id = f"image-{metadata['uri']}".
CacheAndIndexByUri(st, image_data, metadata, inp) ==
    LET resource_id == "image-" \o metadata.uri
        cache_path == cache_dir \o "/" \o resource_id \o ".data"
        w == WriteFile([st EXCEPT !.issued = @ \cup {inp.uuid}], cache_path,
                       image_data, inp.io)
    IN  IF ~w.out.ok THEN [st |-> w.st, out |-> w.out]
        ELSE
            [st |-> DictSet(w.st, resource_id,
                        [id |-> resource_id,
                         type |-> metadata.content_type,
                         uri |-> metadata.uri,
                         size |-> metadata.size,
                         created_at |-> inp.now,
                         cache_path |-> cache_path,
                         text_extracted |-> FALSE,
                         extracted_text |-> None,
                         confidence_score |-> None,
                         text_extraction_time |-> None,
                         text_extractor |-> None]),
             out |-> Ok(resource_id)]

\* Lines 29-50 of add_image_from_url (58-79 of add_image_from_path are the
\* same statements): the id, the cache file, the record.
CacheAndIndex(st, image_data, metadata, inp) ==
    LET resource_id == "image-" \o inp.uuid
        cache_path == cache_dir \o "/" \o resource_id \o ".data"
        w == WriteFile([st EXCEPT !.issued = @ \cup {inp.uuid}], cache_path,
                       image_data, inp.io)
    IN  IF ~w.out.ok THEN [st |-> w.st, out |-> w.out]
        ELSE
            [st |-> DictSet(w.st, resource_id,
                        [id |-> resource_id,
                         type |-> metadata.content_type,
                         uri |-> metadata.uri,
                         size |-> metadata.size,
                         created_at |-> inp.now,
                         cache_path |-> cache_path,
                         text_extracted |-> FALSE,
                         extracted_text |-> None,
                         confidence_score |-> None,
                         text_extraction_time |-> None,
                         text_extractor |-> None]),
             out |-> Ok(resource_id)]

\* An add_image_from_url that saves whatever bytes the source holds before it
\* looks at the outcome of the download.
AddImageFromUrlCacheFirst(st, url, inp) ==
    LET image_source == CreateImageSource(url, inp.file)
    IN  IF ~image_source.ok THEN [st |-> st, out |-> image_source]
        ELSE
            LET d == Download(image_source.val, inp.resp, inp.file, inp.now)
                saved == IF IsNone(d.src.data) THEN st
                         ELSE WriteFile(st, cache_dir \o "/download.data",
                                        Get(d.src.data),
                                        [result |-> "ok", written |-> 0]).st
            IN  IF ~d.out.ok THEN [st |-> saved, out |-> d.out]
                ELSE
                    LET metadata == GetMetadata(d.src)
                    IN  IF ~metadata.ok THEN [st |-> saved, out |-> metadata]
                        ELSE CacheAndIndex(saved, d.out.val, metadata.val, inp)

\* ResourceManager.add_image_from_url
AddImageFromUrl(st, url, inp) ==
    LET image_source == CreateImageSource(url, inp.file)
    IN  IF ~image_source.ok THEN [st |-> st, out |-> image_source]
        ELSE
            LET d == Download(image_source.val, inp.resp, inp.file, inp.now)
            IN  IF ~d.out.ok THEN [st |-> st, out |-> d.out]
                ELSE
                    LET metadata == GetMetadata(d.src)
                    IN  IF ~metadata.ok THEN [st |-> st, out |-> metadata]
                        ELSE CacheAndIndex(st, d.out.val, metadata.val, inp)

\* ResourceManager.add_image_from_path
AddImageFromPath(st, path, inp) ==
    LET image_source == CreateImageSource(path, inp.file)
    IN  IF ~image_source.ok THEN [st |-> st, out |-> image_source]
        ELSE
            LET d == Download(image_source.val, inp.resp, inp.file, inp.now)
            IN  IF ~d.out.ok THEN [st |-> st, out |-> d.out]
                ELSE
                    LET metadata == GetMetadata(d.src)
                    IN  IF ~metadata.ok THEN [st |-> st, out |-> metadata]
                        ELSE CacheAndIndex(st, d.out.val, metadata.val, inp)

\* A try block that keeps the result of an earlier extraction (the text is
\* extracted once and kept).
RecordExtractedOnce(resource, extracted_text, confidence_score, extractor_type, now) ==
    IF resource.text_extracted THEN resource
    ELSE [resource EXCEPT !.text_extracted = TRUE,
                          !.extracted_text = Some(extracted_text),
                          !.confidence_score = Some(confidence_score),
                          !.text_extraction_time = Some(now),
                          !.text_extractor = Some(extractor_type)]

\* A try block that also relabels the record as text.
RecordExtractedRetyped(resource, extracted_text, confidence_score, extractor_type, now) ==
    [resource EXCEPT !.type = "text/plain",
                     !.text_extracted = TRUE,
                     !.extracted_text = Some(extracted_text),
                     !.confidence_score = Some(confidence_score),
                     !.text_extraction_time = Some(now),
                     !.text_extractor = Some(extractor_type)]

\* The record after the try block of extract_text_from_image succeeded
\* (lines 99-103).
RecordExtracted(resource, extracted_text, confidence_score, extractor_type, now) ==
    [resource EXCEPT !.text_extracted = TRUE,
                     !.extracted_text = Some(extracted_text),
                     !.confidence_score = Some(confidence_score),
                     !.text_extraction_time = Some(now),
                     !.text_extractor = Some(extractor_type)]

\* An except block that marks the record as not extracted again.
RecordFailedReset(resource, e, extractor_type, now) ==
    [resource EXCEPT !.text_extracted = FALSE,
                     !.extracted_text = Some("Text extraction failed: " \o e),
                     !.confidence_score = Some(Zero),
                     !.text_extraction_time = Some(now),
                     !.text_extractor = Some(extractor_type)]

\* An except block that raises without touching the record.
RecordFailedSkipped(resource, e, extractor_type, now) == resource

\* The record after the except block of extract_text_from_image (lines
\* 114-119).
RecordFailed(resource, e, extractor_type, now) ==
    [resource EXCEPT !.text_extracted = TRUE,
                     !.extracted_text = Some("Text extraction failed: " \o e),
                     !.confidence_score = Some(Zero),
                     !.text_extraction_time = Some(now),
                     !.text_extractor = Some(extractor_type)]

\* An extract_text_from_image that looks the id up after the provider ran.
ExtractTextFromImageLateLookup(st, resource_id, extractor_type, inp) ==
    IF resource_id \notin DOMAIN st.res THEN
        LET extractor == CreateExtractor(extractor_type, inp.creds)
        IN  IF ~extractor.ok THEN [st |-> st, out |-> extractor]
            ELSE [st |-> [st EXCEPT !.temp =
                            ExtractText(extractor.val, <<>>, inp.script, st.temp).temp],
                  out |-> Raise("Resource not found: " \o resource_id)]
    ELSE
        LET resource == st.res[resource_id]
            image_data == ReadFile(st, resource.cache_path, inp.readable)
            extractor == CreateExtractor(extractor_type, inp.creds)
        IN  IF ~image_data.ok THEN [st |-> st, out |-> image_data]
            ELSE IF ~extractor.ok THEN [st |-> st, out |-> extractor]
            ELSE
                LET x == ExtractText(extractor.val, image_data.val, inp.script, st.temp)
                    st1 == [st EXCEPT !.temp = x.temp]
                IN  IF x.out.ok THEN
                        [st |-> [st1 EXCEPT !.res[resource_id] =
                                    RecordExtracted(resource, x.out.val,
                                        GetConfidenceScore(x.ex), extractor_type, inp.now)],
                         out |-> Ok([resource_id |-> resource_id,
                                     text |-> x.out.val,
                                     confidence |-> GetConfidenceScore(x.ex)])]
                    ELSE
                        [st |-> [st1 EXCEPT !.res[resource_id] =
                                    RecordFailed(resource, x.out.val, extractor_type, inp.now)],
                         out |-> Raise("Failed to extract text: " \o x.out.val)]

\* ResourceManager.extract_text_from_image
ExtractTextFromImage(st, resource_id, extractor_type, inp) ==
    IF resource_id \notin DOMAIN st.res THEN
        [st |-> st, out |-> Raise("Resource not found: " \o resource_id)]
    ELSE
        LET resource == st.res[resource_id]
            image_data == ReadFile(st, resource.cache_path, inp.readable)
            extractor == CreateExtractor(extractor_type, inp.creds)
        IN  IF ~image_data.ok THEN [st |-> st, out |-> image_data]
            ELSE IF ~extractor.ok THEN [st |-> st, out |-> extractor]
            ELSE
                LET x == ExtractText(extractor.val, image_data.val, inp.script, st.temp)
                    st1 == [st EXCEPT !.temp = x.temp]
                IN  IF x.out.ok THEN
                        [st |-> [st1 EXCEPT !.res[resource_id] =
                                    RecordExtracted(resource, x.out.val,
                                        GetConfidenceScore(x.ex), extractor_type, inp.now)],
                         out |-> Ok([resource_id |-> resource_id,
                                     text |-> x.out.val,
                                     confidence |-> GetConfidenceScore(x.ex)])]
                    ELSE
                        [st |-> [st1 EXCEPT !.res[resource_id] =
                                    RecordFailed(resource, x.out.val, extractor_type, inp.now)],
                         out |-> Raise("Failed to extract text: " \o x.out.val)]

\* ResourceManager.get_resource
GetResource(st, resource_id) ==
    IF resource_id \notin DOMAIN st.res THEN
        Raise("Resource not found: " \o resource_id)
    ELSE Ok(st.res[resource_id])

\* A list_resources that names its entries with the resource:/// scheme.
ListResourcesSpecScheme(st) ==
    [i \in 1..Len(st.ord) |->
        LET resource_id == st.ord[i]
            resource == st.res[resource_id]
        IN  [uri |-> "resource:///" \o resource_id,
             name |-> resource_id,
             description |->
                 (IF ~resource.text_extracted THEN "Image" ELSE "Extracted Text")
                 \o " - " \o resource.uri,
             mimeType |->
                 IF ~resource.text_extracted THEN resource.type ELSE "text/plain"]]

\* A list_resources that reports the image type after an extraction too.
ListResourcesImageType(st) ==
    [i \in 1..Len(st.ord) |->
        LET resource_id == st.ord[i]
            resource == st.res[resource_id]
        IN  [uri |-> "mcp:///resource/" \o resource_id,
             name |-> resource_id,
             description |->
                 (IF ~resource.text_extracted THEN "Image" ELSE "Extracted Text")
                 \o " - " \o resource.uri,
             mimeType |-> resource.type]]

\* ResourceManager.list_resources: one types.Resource per dict item.
ListResources(st) ==
    [i \in 1..Len(st.ord) |->
        LET resource_id == st.ord[i]
            resource == st.res[resource_id]
        IN  [uri |-> "mcp:///resource/" \o resource_id,
             name |-> resource_id,
             description |->
                 (IF ~resource.text_extracted THEN "Image" ELSE "Extracted Text")
                 \o " - " \o resource.uri,
             mimeType |->
                 IF ~resource.text_extracted THEN resource.type ELSE "text/plain"]]

\* A get_resource_content that serves the image whenever the recorded text
\* is the message of a failed extraction.
GetResourceContentHidesFailure(st, resource_id, readable) ==
    IF resource_id \notin DOMAIN st.res THEN
        Raise("Resource not found: " \o resource_id)
    ELSE
        LET resource == st.res[resource_id]
            uri == "mcp:///resource/" \o resource_id
        IN  IF /\ resource.text_extracted
               /\ Truthy(resource.extracted_text)
               /\ ~StartsWith(Get(resource.extracted_text), "Text extraction failed: ")
            THEN
                Ok([kind |-> "text", uri |-> uri, mimeType |-> "text/plain",
                    text |-> Get(resource.extracted_text)])
            ELSE
                LET image_data == ReadFile(st, resource.cache_path, readable)
                IN  IF ~image_data.ok THEN image_data
                    ELSE Ok([kind |-> "blob", uri |-> uri, mimeType |-> resource.type,
                             blob |-> B64Encode(image_data.val)])

\* A get_resource_content that always takes the image branch.
GetResourceContentImageOnly(st, resource_id, readable) ==
    IF resource_id \notin DOMAIN st.res THEN
        Raise("Resource not found: " \o resource_id)
    ELSE
        LET resource == st.res[resource_id]
            image_data == ReadFile(st, resource.cache_path, readable)
        IN  IF ~image_data.ok THEN image_data
            ELSE Ok([kind |-> "blob", uri |-> "mcp:///resource/" \o resource_id,
                     mimeType |-> resource.type,
                     blob |-> B64Encode(image_data.val)])

\* ResourceManager.get_resource_content
GetResourceContent(st, resource_id, readable) ==
    IF resource_id \notin DOMAIN st.res THEN
        Raise("Resource not found: " \o resource_id)
    ELSE
        LET resource == st.res[resource_id]
            uri == "mcp:///resource/" \o resource_id
        IN  IF resource.text_extracted /\ Truthy(resource.extracted_text) THEN
                Ok([kind |-> "text", uri |-> uri, mimeType |-> "text/plain",
                    text |-> Get(resource.extracted_text)])
            ELSE
                LET image_data == ReadFile(st, resource.cache_path, readable)
                IN  IF ~image_data.ok THEN image_data
                    ELSE Ok([kind |-> "blob", uri |-> uri, mimeType |-> resource.type,
                             blob |-> B64Encode(image_data.val)])

\* A get_extracted_text that treats a recorded failure as no text.
GetExtractedTextHidesFailure(st, resource_id) ==
    IF resource_id \notin DOMAIN st.res THEN
        Raise("Resource not found: " \o resource_id)
    ELSE
        LET resource == st.res[resource_id]
        IN  IF ~resource.text_extracted \/ ~Truthy(resource.extracted_text)
               \/ resource.confidence_score = Some(Zero)
            THEN Ok(None)
            ELSE Ok(resource.extracted_text)

\* A get_extracted_text that answers None for an id it does not know.
GetExtractedTextLenient(st, resource_id) ==
    IF resource_id \notin DOMAIN st.res THEN Ok(None)
    ELSE
        LET resource == st.res[resource_id]
        IN  IF ~resource.text_extracted \/ ~Truthy(resource.extracted_text)
            THEN Ok(None)
            ELSE Ok(resource.extracted_text)

\* ResourceManager.get_extracted_text
GetExtractedText(st, resource_id) ==
    IF resource_id \notin DOMAIN st.res THEN
        Raise("Resource not found: " \o resource_id)
    ELSE
        LET resource == st.res[resource_id]
        IN  IF ~resource.text_extracted \/ ~Truthy(resource.extracted_text)
            THEN Ok(None)
            ELSE Ok(resource.extracted_text)

\* ------------------------------------------------------ prompt templates

\* AnalyzeImagePrompt.generate_prompt
AnalyzeImagePrompt(extracted_text, metadata) ==
    [description |-> "Analyze the content of an image based on extracted text",
     messages |-> <<[role |-> "user",
                     text |-> "I have an image with the following extracted text. "
                              \o "Please analyze and explain what this image might contain or represent:\n\n"
                              \o extracted_text]>>]

\* ExtractInformationPrompt.generate_prompt
ExtractInformationPrompt(extracted_text, metadata) ==
    LET info_type == IF "information_type" \in DOMAIN metadata
                     THEN metadata["information_type"] ELSE "general"
    IN  [description |-> "Extract " \o info_type \o " information from image text",
         messages |-> <<[role |-> "user",
                         text |-> "I have an image with the following extracted text. "
                                  \o "Please extract " \o info_type \o " information from it:\n\n"
                                  \o extracted_text]>>]

\* SummarizeImageTextPrompt.generate_prompt
SummarizeImageTextPrompt(extracted_text, metadata) ==
    LET length == IF "length" \in DOMAIN metadata THEN metadata["length"] ELSE "short"
    IN  [description |-> "Summarize the text extracted from an image",
         messages |-> <<[role |-> "user",
                         text |-> "I have an image with the following extracted text. "
                                  \o "Please provide a " \o length \o " summary of it:\n\n"
                                  \o extracted_text]>>]

\* ------------------------------------------------------------- the server

\* arguments.get(key, default)
ArgGet(arguments, key, default) ==
    IF key \in DOMAIN arguments THEN arguments[key] ELSE default

TextContent(text) == [type |-> "text", text |-> text]
EmbeddedResource(uri, text) ==
    [type |-> "resource", uri |-> uri, mimeType |-> "text/plain", text |-> text]

EXTRACTION_PLACEHOLDER ==
    "Unable to extract text from this image. Please ensure the image contains readable text."

\* A text lookup that extracts again whether or not the record has text.
TextForResourceAlways(st, resource_id, inp) ==
    LET t == GetExtractedText(st, resource_id)
    IN  IF ~t.ok THEN [st |-> st, out |-> t]
        ELSE
            LET r == ExtractTextFromImage(st, resource_id, "tesseract", inp)
            IN  IF r.out.ok THEN [st |-> r.st, out |-> Ok(r.out.val.text)]
                ELSE [st |-> r.st, out |-> Ok(EXTRACTION_PLACEHOLDER)]

\* The text a handler uses for a resource (server.py 158-167 and 265-274):
\* the stored text, or a first extraction with the default extractor, or the
\* placeholder when that extraction raises. The outcome is that of
\* get_extracted_text: a raise there is the caller's to handle.
TextForResource(st, resource_id, inp) ==
    LET t == GetExtractedText(st, resource_id)
    IN  IF ~t.ok THEN [st |-> st, out |-> t]
        ELSE IF Truthy(t.val) THEN [st |-> st, out |-> Ok(Get(t.val))]
        ELSE
            LET r == ExtractTextFromImage(st, resource_id, "tesseract", inp)
            IN  IF r.out.ok THEN [st |-> r.st, out |-> Ok(r.out.val.text)]
                ELSE [st |-> r.st, out |-> Ok(EXTRACTION_PLACEHOLDER)]

\* A call_tool whose except clauses re-raise the store's exception as it is
\* (raise e) instead of wrapping it in a "Failed to ..." description.
CallToolReraise(st, name, arguments, inp) ==
    IF name = "downloadImageFromUrl" /\ "url" \in DOMAIN arguments THEN
        LET r == AddImageFromUrl(st, arguments["url"], inp)
        IN  [st |-> r.st,
             out |-> IF r.out.ok
                     THEN Ok(<<TextContent("Image downloaded successfully. Resource ID: "
                                           \o r.out.val)>>)
                     ELSE r.out]
    ELSE IF name = "loadImageFromPath" /\ "path" \in DOMAIN arguments THEN
        LET r == AddImageFromPath(st, arguments["path"], inp)
        IN  [st |-> r.st,
             out |-> IF r.out.ok
                     THEN Ok(<<TextContent("Image loaded successfully. Resource ID: "
                                           \o r.out.val)>>)
                     ELSE r.out]
    ELSE IF name = "extractTextFromImage" /\ "resource_id" \in DOMAIN arguments THEN
        LET r == ExtractTextFromImage(st, arguments["resource_id"],
                                      ArgGet(arguments, "extractor", "tesseract"), inp)
        IN  [st |-> r.st,
             out |-> IF r.out.ok
                     THEN Ok(<<TextContent("Text extracted successfully.")>>)
                     ELSE r.out]
    ELSE [st |-> st, out |-> Raise("Unknown tool: " \o name)]

\* A call_tool whose useTextAsContext branch has no outer try/except: the
\* exception of get_extracted_text leaves the handler.
CallToolNoCatch(st, name, arguments, inp) ==
    IF name = "useTextAsContext" /\ "resource_id" \in DOMAIN arguments THEN
        LET t == TextForResource(st, arguments["resource_id"], inp)
        IN  IF t.out.ok THEN
                [st |-> t.st,
                 out |-> Ok(<<EmbeddedResource(
                            "mcp:///resource/" \o arguments["resource_id"],
                            t.out.val)>>)]
            ELSE [st |-> t.st, out |-> t.out]
    ELSE [st |-> st, out |-> Raise("Unknown tool: " \o name)]

\* ImageOcrServer._register_tools.call_tool: the handler as written.
CallTool(st, name, arguments, inp) ==
    IF name = "downloadImageFromUrl" THEN
        IF "url" \notin DOMAIN arguments THEN
            [st |-> st, out |-> Raise("Missing required argument 'url'")]
        ELSE
            LET r == AddImageFromUrl(st, arguments["url"], inp)
            IN  IF r.out.ok THEN
                    [st |-> r.st,
                     out |-> Ok(<<TextContent("Image downloaded successfully. Resource ID: "
                                              \o r.out.val)>>)]
                ELSE [st |-> r.st, out |-> Raise("Failed to download image: " \o r.out.val)]
    ELSE IF name = "loadImageFromPath" THEN
        IF "path" \notin DOMAIN arguments THEN
            [st |-> st, out |-> Raise("Missing required argument 'path'")]
        ELSE
            LET r == AddImageFromPath(st, arguments["path"], inp)
            IN  IF r.out.ok THEN
                    [st |-> r.st,
                     out |-> Ok(<<TextContent("Image loaded successfully. Resource ID: "
                                              \o r.out.val)>>)]
                ELSE [st |-> r.st, out |-> Raise("Failed to load image: " \o r.out.val)]
    ELSE IF name = "extractTextFromImage" THEN
        IF "resource_id" \notin DOMAIN arguments THEN
            [st |-> st, out |-> Raise("Missing required argument 'resource_id'")]
        ELSE
            LET extractor == ArgGet(arguments, "extractor", "tesseract")
                r == ExtractTextFromImage(st, arguments["resource_id"], extractor, inp)
            IN  IF r.out.ok THEN
                    [st |-> r.st,
                     out |-> Ok(<<TextContent(
                                "Text extracted successfully with confidence "
                                \o Fmt2f(r.out.val.confidence) \o "%.\n\n"
                                \o "Extracted text:\n" \o r.out.val.text)>>)]
                ELSE [st |-> r.st, out |-> Raise("Failed to extract text: " \o r.out.val)]
    ELSE IF name = "useTextAsContext" THEN
        IF "resource_id" \notin DOMAIN arguments THEN
            [st |-> st, out |-> Raise("Missing required argument 'resource_id'")]
        ELSE
            LET t == TextForResource(st, arguments["resource_id"], inp)
            IN  IF t.out.ok THEN
                    [st |-> t.st,
                     out |-> Ok(<<EmbeddedResource(
                                "mcp:///resource/" \o arguments["resource_id"],
                                t.out.val)>>)]
                ELSE
                    [st |-> t.st,
                     out |-> Ok(<<EmbeddedResource(
                                "mcp:///resource/error",
                                "Error retrieving text from the resource: " \o t.out.val)>>)]
    ELSE [st |-> st, out |-> Raise("Unknown tool: " \o name)]

\* Server.call_tool, the decorator of the SDK around the handler: what the
\* handler returns is the content of a result, and an exception the handler
\* raises becomes a result (not a protocol error) that carries the message.
ServerCallTool(out) ==
    IF out.ok THEN [kind |-> "result", content |-> out.val]
    ELSE [kind |-> "result", content |-> <<TextContent(out.val)>>]

RESOURCE_ERROR_TEXT == "Error retrieving text from the resource."

\* A get_prompt without the outer try/except around the text lookup: the
\* exception of get_extracted_text leaves the handler.
GetPromptNoCatch(st, name, arguments, inp) ==
    IF IsNone(arguments) \/ DOMAIN Get(arguments) = {} THEN
        [st |-> st, out |-> Raise("Missing required arguments")]
    ELSE IF "resource_id" \notin DOMAIN Get(arguments) THEN
        [st |-> st, out |-> Raise("Missing required argument 'resource_id'")]
    ELSE
        LET args == Get(arguments)
            t == TextForResource(st, args["resource_id"], inp)
        IN  IF ~t.out.ok THEN [st |-> t.st, out |-> t.out]
            ELSE IF name = "analyzeImageContent" THEN
                [st |-> t.st,
                 out |-> Ok(AnalyzeImagePrompt(t.out.val,
                            [analysis_type |-> ArgGet(args, "analysis_type", "general")]))]
            ELSE IF name = "extractInformation" THEN
                IF "information_type" \notin DOMAIN args THEN
                    [st |-> t.st,
                     out |-> Raise("Missing required argument 'information_type'")]
                ELSE
                    [st |-> t.st,
                     out |-> Ok(ExtractInformationPrompt(t.out.val,
                                [information_type |-> args["information_type"]]))]
            ELSE IF name = "summarizeImageText" THEN
                [st |-> t.st,
                 out |-> Ok(SummarizeImageTextPrompt(t.out.val,
                            [length |-> ArgGet(args, "length", "short")]))]
            ELSE [st |-> t.st, out |-> Raise("Unknown prompt: " \o name)]

\* ImageOcrServer._register_prompts.get_prompt; arguments is None or a dict.
GetPrompt(st, name, arguments, inp) ==
    IF IsNone(arguments) \/ DOMAIN Get(arguments) = {} THEN
        [st |-> st, out |-> Raise("Missing required arguments")]
    ELSE IF "resource_id" \notin DOMAIN Get(arguments) THEN
        [st |-> st, out |-> Raise("Missing required argument 'resource_id'")]
    ELSE
        LET args == Get(arguments)
            t == TextForResource(st, args["resource_id"], inp)
            extracted_text == IF t.out.ok THEN t.out.val ELSE RESOURCE_ERROR_TEXT
        IN  IF name = "analyzeImageContent" THEN
                [st |-> t.st,
                 out |-> Ok(AnalyzeImagePrompt(extracted_text,
                            [analysis_type |-> ArgGet(args, "analysis_type", "general")]))]
            ELSE IF name = "extractInformation" THEN
                IF "information_type" \notin DOMAIN args THEN
                    [st |-> t.st,
                     out |-> Raise("Missing required argument 'information_type'")]
                ELSE
                    [st |-> t.st,
                     out |-> Ok(ExtractInformationPrompt(extracted_text,
                                [information_type |-> args["information_type"]]))]
            ELSE IF name = "summarizeImageText" THEN
                [st |-> t.st,
                 out |-> Ok(SummarizeImageTextPrompt(extracted_text,
                            [length |-> ArgGet(args, "length", "short")]))]
            ELSE [st |-> t.st, out |-> Raise("Unknown prompt: " \o name)]

\* The position of the first occurrence of sep in s at or after i, 0 if none.
RECURSIVE Find(_, _, _)
Find(s, sep, i) ==
    IF i + Len(sep) - 1 > Len(s) THEN 0
    ELSE IF SubSeq(s, i, i + Len(sep) - 1) = sep THEN i
    ELSE Find(s, sep, i + 1)

\* s.split(sep)[1], for an s that contains sep.
SplitSecond(s, sep) ==
    LET a == Find(s, sep, 1)
        rest == DropPrefix(s, a + Len(sep) - 1)
        b == Find(rest, sep, 1)
    IN  IF b = 0 THEN rest ELSE SubSeq(rest, 1, b - 1)

\* A read_resource that also takes the resource:/// form of a URI.
ReadResourceAnyScheme(st, uri, readable) ==
    IF ~StartsWith(uri, "mcp:///resource/") /\ ~StartsWith(uri, "resource:///") THEN
        Raise("Invalid resource URI format: " \o uri)
    ELSE
        LET resource_id == IF StartsWith(uri, "resource:///")
                           THEN DropPrefix(uri, Len("resource:///"))
                           ELSE SplitSecond(uri, "mcp:///resource/")
            c == GetResourceContent(st, resource_id, readable)
        IN  IF c.ok THEN c ELSE Raise("Failed to read resource: " \o c.val)

\* ImageOcrServer._register_resources.read_resource
ReadResource(st, uri, readable) ==
    IF ~StartsWith(uri, "mcp:///resource/") THEN
        Raise("Invalid resource URI format: " \o uri)
    ELSE
        LET resource_id == SplitSecond(uri, "mcp:///resource/")
            c == GetResourceContent(st, resource_id, readable)
        IN  IF c.ok THEN c ELSE Raise("Failed to read resource: " \o c.val)

\* ------------------------------------------------------------- the state

VARIABLES
    resources,   \* self.resources: resource id -> record
    order,       \* the insertion order of self.resources
    files,       \* the cache directory: path -> bytes
    temp_file,   \* whether temp_ocr_image.png exists
    issued,      \* the uuid4() values drawn so far
    call         \* the call followed statement by statement, if there is one

vars == <<resources, order, files, temp_file, issued, call>>

\* No call is followed statement by statement: every operation is taken as
\* one step.
NoCall == [kind |-> "none", pc |-> "done"]

Store ==
    [res |-> resources, ord |-> order, files |-> files, temp |-> temp_file,
     issued |-> issued]

\* A call ran on the store and ended as r: the store it leaves, whether it
\* returned or raised.
Commit(r) ==
    /\ r.out.ok \in BOOLEAN
    /\ resources' = r.st.res
    /\ order' = r.st.ord
    /\ files' = r.st.files
    /\ temp_file' = r.st.temp
    /\ issued' = r.st.issued
    /\ UNCHANGED call

\* A call that only reads the store ended as out.
Answer(out) ==
    /\ out.ok \in BOOLEAN
    /\ UNCHANGED vars

Init ==
    /\ resources = EmptyStore.res
    /\ order = EmptyStore.ord
    /\ files = EmptyStore.files
    /\ temp_file = EmptyStore.temp
    /\ issued = EmptyStore.issued
    /\ call = NoCall

\* ------------------------------------------------------------- the inputs

NoResponse == [status |-> "connect_error", content_type |-> "", content |-> <<>>]
NoFile == [exists |-> FALSE, data |-> <<>>]
IoOk == [result |-> "ok", written |-> 0]
IoChoices ==
    {IoOk, [result |-> "open_fail", written |-> 0]}
    \cup {[result |-> "write_fail", written |-> n] : n \in 0..(MAX_IMAGE_SIZE - 1)}

\* The outside as one ingest of `uri` meets it: the HTTP response for a web
\* descriptor, the file for any other (the part the call does not read is
\* fixed).
Worlds(uri) ==
    IF StartsWith(uri, "http://") \/ StartsWith(uri, "https://")
    THEN {[resp |-> r, file |-> NoFile] : r \in Responses}
    ELSE {[resp |-> NoResponse, file |-> f] : f \in FileStates}

\* Whether the ingest of `uri` in world w gets as far as uuid4().
Fetches(uri, w) ==
    LET src == CreateImageSource(uri, w.file)
    IN  src.ok /\ Download(src.val, w.resp, w.file, "").out.ok

\* The value the next uuid4() call returns.
NextUuid ==
    IF Cardinality(issued) < MaxIds THEN {UuidPool[Cardinality(issued) + 1]} ELSE {}

\* The inputs of one ingest of `uri`: the world, the time, and, if the fetch
\* succeeds, a fresh uuid and the fate of the cache write.
IngestInputs(uri) ==
    UNION {
        IF Fetches(uri, w)
        THEN {w @@ [now |-> t, uuid |-> u, io |-> io] :
                t \in Timestamps, u \in NextUuid, io \in IoChoices}
        ELSE {w @@ [now |-> t, uuid |-> "", io |-> IoOk] : t \in Timestamps}
        : w \in Worlds(uri)}

\* The engine behaviours the store is run against.
OneText == Ok("HELLO\n")
Blank == Ok(" \n")
Throws == Raise("tesseract failed")
EngineScripts ==
    {ScriptOf(FALSE, Throws, Throws, <<Throws, Throws, Throws, Throws>>, TRUE),
     ScriptOf(TRUE, OneText, Ok(<<-1, 90, 70>>), <<Throws, Throws, Throws, Throws>>, TRUE),
     ScriptOf(TRUE, OneText, Ok(<<>>), <<Throws, Throws, Throws, Throws>>, TRUE),
     ScriptOf(TRUE, Blank, Throws, <<Throws, Ok(""), OneText, Blank>>, TRUE),
     ScriptOf(TRUE, Throws, Throws, <<Blank, Ok(""), Throws, Blank>>, TRUE)}
NoScript == ScriptOf(FALSE, Throws, Throws, <<Throws, Throws, Throws, Throws>>, TRUE)
Credentials == [api_key : BOOLEAN, endpoint : BOOLEAN]
NoCredentials == [api_key |-> FALSE, endpoint |-> FALSE]

NoInput ==
    [readable |-> TRUE, script |-> NoScript, creds |-> NoCredentials, now |-> "",
     resp |-> NoResponse, file |-> NoFile, uuid |-> "", io |-> IoOk]

\* The inputs of one extraction of resource_id with `extractor_type`: for a
\* known id, whether the cache file can be read and, if so, what the provider
\* meets (the engine for tesseract, the credentials for azure).
ExtractInputs(resource_id, extractor_type) ==
    IF resource_id \notin DOMAIN resources THEN {NoInput}
    ELSE
        {[NoInput EXCEPT !.readable = FALSE, !.now = t] : t \in Timestamps}
        \cup {[NoInput EXCEPT !.script = s, !.creds = c, !.now = t] :
                s \in (IF extractor_type = "tesseract" THEN EngineScripts ELSE {NoScript}),
                c \in (IF extractor_type = "azure" THEN Credentials ELSE {NoCredentials}),
                t \in Timestamps}

\* The inputs of a handler that uses the text of resource_id: those of a first
\* extraction if the record has no text yet.
TextInputs(resource_id) ==
    IF resource_id \in DOMAIN resources
       /\ ~Truthy(GetExtractedText(Store, resource_id).val)
    THEN ExtractInputs(resource_id, "tesseract")
    ELSE {NoInput}

ExtractorTypes == {"tesseract", "azure", "easyocr"}
\* The resource ids callers pass: every id the store can issue, and one it
\* never issues.
ResourceIds == {"image-" \o u : u \in Uuids} \cup {"image-none"}

\* ------------------------------------------------------------ the actions

\* resource_manager.add_image_from_url(url)
DoAddImageFromUrl ==
    \E url \in Descriptors : \E inp \in IngestInputs(url) :
        Commit(AddImageFromUrl(Store, url, inp))

\* resource_manager.add_image_from_path(path)
DoAddImageFromPath ==
    \E path \in Descriptors : \E inp \in IngestInputs(path) :
        Commit(AddImageFromPath(Store, path, inp))

\* resource_manager.extract_text_from_image(resource_id, extractor_type)
DoExtractTextFromImage ==
    \E resource_id \in ResourceIds, extractor_type \in ExtractorTypes :
        \E inp \in ExtractInputs(resource_id, extractor_type) :
            Commit(ExtractTextFromImage(Store, resource_id, extractor_type, inp))

\* resource_manager.get_resource(resource_id)
DoGetResource ==
    \E resource_id \in ResourceIds :
        Answer(GetResource(Store, resource_id))

\* resource_manager.list_resources(), also the server's list_resources handler
DoListResources ==
    Answer(Ok(ListResources(Store)))

\* resource_manager.get_resource_content(resource_id)
DoGetResourceContent ==
    \E resource_id \in ResourceIds, readable \in BOOLEAN :
        Answer(GetResourceContent(Store, resource_id, readable))

\* A get_extracted_text that extracts on demand, as the handlers do.
DoGetExtractedTextLazy ==
    \E resource_id \in ResourceIds : \E inp \in TextInputs(resource_id) :
        Commit(TextForResource(Store, resource_id, inp))

\* resource_manager.get_extracted_text(resource_id)
DoGetExtractedText ==
    \E resource_id \in ResourceIds :
        Answer(GetExtractedText(Store, resource_id))

\* The tool calls clients make: every tool with and without its arguments,
\* and a tool that does not exist.
NoArguments == <<>>
ToolCalls ==
    {[name |-> n, arguments |-> NoArguments] :
        n \in {"downloadImageFromUrl", "loadImageFromPath", "extractTextFromImage",
               "useTextAsContext", "deleteImage"}}
    \cup {[name |-> "downloadImageFromUrl", arguments |-> [url |-> d]] : d \in Descriptors}
    \cup {[name |-> "loadImageFromPath", arguments |-> [path |-> d]] : d \in Descriptors}
    \cup {[name |-> "extractTextFromImage", arguments |-> [resource_id |-> r]] :
            r \in ResourceIds}
    \cup {[name |-> "extractTextFromImage",
           arguments |-> [resource_id |-> r, extractor |-> e]] :
            r \in ResourceIds, e \in ExtractorTypes}
    \cup {[name |-> "extractTextFromImage", arguments |-> [extractor |-> "azure"]]}
    \cup {[name |-> "useTextAsContext", arguments |-> [resource_id |-> r]] :
            r \in ResourceIds}
    \cup {[name |-> "deleteImage", arguments |-> [resource_id |-> "image-none"]]}

\* The inputs the handler of a tool call can meet.
ToolInputs(c) ==
    IF c.name = "downloadImageFromUrl" /\ "url" \in DOMAIN c.arguments
    THEN IngestInputs(c.arguments["url"])
    ELSE IF c.name = "loadImageFromPath" /\ "path" \in DOMAIN c.arguments
    THEN IngestInputs(c.arguments["path"])
    ELSE IF c.name = "extractTextFromImage" /\ "resource_id" \in DOMAIN c.arguments
    THEN ExtractInputs(c.arguments["resource_id"],
                       ArgGet(c.arguments, "extractor", "tesseract"))
    ELSE IF c.name = "useTextAsContext" /\ "resource_id" \in DOMAIN c.arguments
    THEN TextInputs(c.arguments["resource_id"])
    ELSE {NoInput}

\* A tools/call request: the handler, inside the SDK's decorator.
DoCallTool ==
    \E c \in ToolCalls : \E inp \in ToolInputs(c) :
        Commit(CallTool(Store, c.name, c.arguments, inp))

\* The prompts/get requests clients make.
PromptNames == {"analyzeImageContent", "extractInformation", "summarizeImageText",
                "translateText"}
PromptArguments ==
    {None, Some(NoArguments), Some([analysis_type |-> "layout"]),
     Some([information_type |-> "dates"])}
    \cup {Some([resource_id |-> r]) : r \in ResourceIds}
    \cup {Some([resource_id |-> r, information_type |-> "dates"]) : r \in ResourceIds}
    \cup {Some([resource_id |-> "image-none", length |-> "long"])}

\* The inputs the handler of a prompt request can meet.
PromptInputs(arguments) ==
    IF ~IsNone(arguments) /\ "resource_id" \in DOMAIN Get(arguments)
    THEN TextInputs(Get(arguments)["resource_id"])
    ELSE {NoInput}

\* A prompts/get request.
DoGetPrompt ==
    \E name \in PromptNames, arguments \in PromptArguments :
        \E inp \in PromptInputs(arguments) :
            Commit(GetPrompt(Store, name, arguments, inp))

\* The URIs clients read.
ResourceUris ==
    {"mcp:///resource/" \o r : r \in ResourceIds}
    \cup {"resource:///image-uuid-1", "mcp:///resource/mcp:///resource/image-uuid-1"}

\* A resources/read request.
DoReadResource ==
    \E uri \in ResourceUris, readable \in BOOLEAN :
        Answer(ReadResource(Store, uri, readable))

Next ==
    \/ DoAddImageFromUrl
    \/ DoAddImageFromPath
    \/ DoExtractTextFromImage
    \/ DoGetResource
    \/ DoListResources
    \/ DoGetResourceContent
    \/ DoGetExtractedText
    \/ DoCallTool
    \/ DoGetPrompt
    \/ DoReadResource

Spec == Init /\ [][Next]_vars

\* ------------------------------------- one call, statement by statement

\* The store after one image was ingested from the network.
FirstImage == [status |-> "ok", content_type |-> "image/png", content |-> <<77>>]
StoreWithOneImage ==
    AddImageFromUrl(EmptyStore, "http://h/a.png",
                    [NoInput EXCEPT !.resp = FirstImage, !.uuid = UuidPool[1],
                                    !.now = "2025-01-01T00:00:00"]).st

\* An extract_text_from_image(resource_id, "tesseract") call about to read the
\* cache file: the extractor it will create, the image_to_string calls made
\* so far (the --psm mode, 0 for the default settings, and the outcome), the
\* outcome of image_to_data, the number of extract_text calls made, what the
\* provider returned and what the call returned.
ExtractCall(resource_id) ==
    [kind |-> "extract_text_from_image", pc |-> "read", resource_id |-> resource_id,
     readable |-> None, opened |-> None, removed |-> None, now |-> None,
     ex |-> TesseractTextExtractor, calls |-> <<>>, data |-> None,
     invocations |-> 0, returned |-> None, out |-> None]

\* An add_image_from_url(uri) call about to create its image source: the
\* fetches made so far (what each met), the bytes and the metadata fetched,
\* the uuid drawn and the fate of the cache write, and what the call returned.
IngestCall(uri) ==
    [kind |-> "add_image_from_url", pc |-> "fetch", uri |-> uri, fetches |-> <<>>,
     image_data |-> None, metadata |-> None, uuid |-> None, io |-> None,
     now |-> None, out |-> None]

\* The store becomes st.
Becomes(st) ==
    /\ resources' = st.res
    /\ order' = st.ord
    /\ files' = st.files
    /\ temp_file' = st.temp
    /\ issued' = st.issued

NonBlank(o) == o.ok /\ Len(o.val) > 0 /\ Len(Strip(o.val)) > 0

\* resource_manager.py 83-93: the id is known; the cache file is read and the
\* extractor created. A failed read leaves the call as an exception.
ReadCache ==
    /\ call.kind = "extract_text_from_image" /\ call.pc = "read"
    /\ \E readable \in BOOLEAN :
          LET image_data == ReadFile(Store, resources[call.resource_id].cache_path,
                                     readable)
          IN  call' = IF image_data.ok
                      THEN [call EXCEPT !.pc = "open", !.readable = Some(readable)]
                      ELSE [call EXCEPT !.pc = "done", !.readable = Some(readable),
                                        !.out = Some(image_data)]
    /\ UNCHANGED <<resources, order, files, temp_file, issued>>

\* An extract_text without the outer except: the exception of Image.open
\* leaves the provider.
OpenImageRaises ==
    /\ call.kind = "extract_text_from_image" /\ call.pc = "open"
    /\ \E opened \in BOOLEAN :
          IF opened THEN
              /\ call' = [call EXCEPT !.pc = "direct", !.opened = Some(TRUE),
                                      !.invocations = @ + 1]
              /\ temp_file' = TRUE
          ELSE
              /\ call' = [call EXCEPT
                            !.pc = "returned", !.opened = Some(FALSE),
                            !.invocations = @ + 1,
                            !.returned = Some(Raise("cannot identify image file"))]
              /\ UNCHANGED temp_file
    /\ UNCHANGED <<resources, order, files, issued>>

\* implementations.py 127-141: extract_text opens the image and saves it as
\* temp_ocr_image.png; an exception here is caught by the outer except
\* (202-206).
OpenImage ==
    /\ call.kind = "extract_text_from_image" /\ call.pc = "open"
    /\ \E opened \in BOOLEAN :
          IF opened THEN
              /\ call' = [call EXCEPT !.pc = "direct", !.opened = Some(TRUE),
                                      !.invocations = @ + 1]
              /\ temp_file' = TRUE
          ELSE
              /\ call' = [call EXCEPT
                            !.pc = "returned", !.opened = Some(FALSE),
                            !.invocations = @ + 1,
                            !.ex.last_confidence = Zero,
                            !.ex.last_text = "Error extracting text: cannot identify image file",
                            !.returned = Some(Ok("Error extracting text: cannot identify image file"))]
              /\ UNCHANGED temp_file
    /\ UNCHANGED <<resources, order, files, issued>>

\* implementations.py 144-148 and 166-167: the attempt with the default
\* settings; an exception is logged.
DirectAttempt ==
    /\ call.kind = "extract_text_from_image" /\ call.pc = "direct"
    /\ \E o \in AttemptOutcomes :
          call' = [call EXCEPT !.calls = Append(@, [mode |-> 0, out |-> o]),
                               !.pc = IF NonBlank(o) THEN "confidence" ELSE "psm"]
    /\ UNCHANGED <<resources, order, files, temp_file, issued>>

\* implementations.py 150-165: the confidence of the default attempt.
ConfidenceBlock ==
    /\ call.kind = "extract_text_from_image" /\ call.pc = "confidence"
    /\ \E d \in DataOutcomes :
          LET text == call.calls[Len(call.calls)].out.val
          IN  call' = [call EXCEPT !.pc = "returned", !.data = Some(d),
                                   !.ex.last_confidence = DirectConfidence(call.ex, d),
                                   !.ex.last_text = text,
                                   !.returned = Some(Ok(text))]
    /\ UNCHANGED <<resources, order, files, temp_file, issued>>

\* A loop whose except clause does not continue: the exception of an
\* attempt reaches the outer except of extract_text.
PsmAttemptThrowEnds ==
    /\ call.kind = "extract_text_from_image" /\ call.pc = "psm"
    /\ Len(call.calls) <= Len(psm_modes)
    /\ \E o \in AttemptOutcomes :
          LET psm_mode == psm_modes[Len(call.calls)]
              made == Append(call.calls, [mode |-> psm_mode, out |-> o])
          IN  call' = IF NonBlank(o)
                      THEN [call EXCEPT !.calls = made, !.pc = "returned",
                                        !.ex.last_text = o.val,
                                        !.ex.last_confidence = DEFAULT_CONFIDENCE,
                                        !.returned = Some(Ok(o.val))]
                      ELSE IF ~o.ok
                      THEN [call EXCEPT !.calls = made, !.pc = "returned",
                                        !.ex.last_text = "Error extracting text: " \o o.val,
                                        !.ex.last_confidence = Zero,
                                        !.returned = Some(Ok("Error extracting text: " \o o.val))]
                      ELSE [call EXCEPT !.calls = made]
    /\ UNCHANGED <<resources, order, files, temp_file, issued>>

\* implementations.py 170-186: one turn of the loop over psm_modes.
PsmAttempt ==
    /\ call.kind = "extract_text_from_image" /\ call.pc = "psm"
    /\ Len(call.calls) <= Len(psm_modes)
    /\ \E o \in AttemptOutcomes :
          LET psm_mode == psm_modes[Len(call.calls)]
              made == Append(call.calls, [mode |-> psm_mode, out |-> o])
          IN  call' = IF NonBlank(o)
                      THEN [call EXCEPT !.calls = made, !.pc = "returned",
                                        !.ex.last_text = o.val,
                                        !.ex.last_confidence = DEFAULT_CONFIDENCE,
                                        !.returned = Some(Ok(o.val))]
                      ELSE [call EXCEPT !.calls = made]
    /\ UNCHANGED <<resources, order, files, temp_file, issued>>

\* implementations.py 188-200: the loop is exhausted.
NoTextFound ==
    /\ call.kind = "extract_text_from_image" /\ call.pc = "psm"
    /\ Len(call.calls) > Len(psm_modes)
    /\ \E removed \in BOOLEAN :
          /\ call' = [call EXCEPT !.pc = "returned", !.removed = Some(removed),
                                  !.ex.last_text = NO_TEXT,
                                  !.ex.last_confidence = Zero,
                                  !.returned = Some(Ok(NO_TEXT))]
          /\ temp_file' = ~removed
    /\ UNCHANGED <<resources, order, files, issued>>

\* resource_manager.py 94-121: the try block records what extract_text
\* returned, the except block what it raised.
RecordResult ==
    /\ call.kind = "extract_text_from_image" /\ call.pc = "returned"
    /\ \E now \in Timestamps :
          LET x == Get(call.returned)
              resource == resources[call.resource_id]
              confidence_score == GetConfidenceScore(call.ex)
          IN  IF x.ok THEN
                  /\ resources' = [resources EXCEPT ![call.resource_id] =
                        RecordExtracted(resource, x.val, confidence_score, "tesseract", now)]
                  /\ call' = [call EXCEPT
                        !.pc = "done", !.now = Some(now),
                        !.out = Some(Ok([resource_id |-> call.resource_id,
                                         text |-> x.val,
                                         confidence |-> confidence_score]))]
              ELSE
                  /\ resources' = [resources EXCEPT ![call.resource_id] =
                        RecordFailed(resource, x.val, "tesseract", now)]
                  /\ call' = [call EXCEPT
                        !.pc = "done", !.now = Some(now),
                        !.out = Some(Raise("Failed to extract text: " \o x.val))]
    /\ UNCHANGED <<order, files, temp_file, issued>>

\* An ingest that asks the source a second time when the download failed.
FetchImageRetry ==
    /\ call.kind = "add_image_from_url" /\ call.pc = "fetch"
    /\ \E w \in Worlds(call.uri) : \E now \in Timestamps :
          LET image_source == CreateImageSource(call.uri, w.file)
              d == Download(image_source.val, w.resp, w.file, now)
              met == [call EXCEPT !.fetches = Append(@, w), !.now = Some(now)]
          IN  call' = IF ~image_source.ok
                      THEN [met EXCEPT !.pc = "done", !.out = Some(image_source)]
                      ELSE IF ~d.out.ok /\ Len(call.fetches) = 0
                      THEN met
                      ELSE IF ~d.out.ok
                      THEN [met EXCEPT !.pc = "done", !.out = Some(d.out)]
                      ELSE [met EXCEPT !.pc = "persist",
                                       !.image_data = Some(d.out.val),
                                       !.metadata = Some(GetMetadata(d.src).val)]
    /\ UNCHANGED <<resources, order, files, temp_file, issued>>

\* resource_manager.py 26-27: the source is created and asked for the bytes
\* and the metadata; an exception leaves the call.
FetchImage ==
    /\ call.kind = "add_image_from_url" /\ call.pc = "fetch"
    /\ \E w \in Worlds(call.uri) : \E now \in Timestamps :
          LET image_source == CreateImageSource(call.uri, w.file)
              d == Download(image_source.val, w.resp, w.file, now)
              met == [call EXCEPT !.fetches = Append(@, w), !.now = Some(now)]
          IN  call' = IF ~image_source.ok
                      THEN [met EXCEPT !.pc = "done", !.out = Some(image_source)]
                      ELSE IF ~d.out.ok
                      THEN [met EXCEPT !.pc = "done", !.out = Some(d.out)]
                      ELSE [met EXCEPT !.pc = "persist",
                                       !.image_data = Some(d.out.val),
                                       !.metadata = Some(GetMetadata(d.src).val)]
    /\ UNCHANGED <<resources, order, files, temp_file, issued>>

\* resource_manager.py 29-50: the id is drawn, the bytes are written to the
\* cache file, the record is inserted.
PersistImage ==
    /\ call.kind = "add_image_from_url" /\ call.pc = "persist"
    /\ \E u \in NextUuid : \E io \in IoChoices :
          LET r == CacheAndIndex(Store, Get(call.image_data), Get(call.metadata),
                                 [NoInput EXCEPT !.uuid = u, !.io = io,
                                                 !.now = Get(call.now)])
          IN  /\ Becomes(r.st)
              /\ call' = [call EXCEPT !.pc = "done", !.uuid = Some(u), !.io = Some(io),
                                      !.out = Some(r.out)]

\* One call is followed from the store that holds one image: an extraction
\* of that image with the tesseract extractor, or an ingest.
StepInit ==
    /\ resources = StoreWithOneImage.res
    /\ order = StoreWithOneImage.ord
    /\ files = StoreWithOneImage.files
    /\ temp_file = StoreWithOneImage.temp
    /\ issued = StoreWithOneImage.issued
    /\ call \in {ExtractCall(StoreWithOneImage.ord[1])}
                \cup {IngestCall(uri) : uri \in Descriptors}

StepNext ==
    \/ ReadCache
    \/ OpenImage
    \/ DirectAttempt
    \/ ConfidenceBlock
    \/ PsmAttempt
    \/ NoTextFound
    \/ RecordResult
    \/ FetchImage
    \/ PersistImage

StepSpec == StepInit /\ [][StepNext]_vars

\* A call that can take a step takes it: the handlers are coroutines that
\* the event loop runs to completion, and no step waits for another call.
StepLiveSpec == StepSpec /\ WF_vars(StepNext)

\* ------------------------------------------- one image source, used again

\* The number of download calls made on one source instance.
MaxDownloads == 3

\* What a source can meet at each call: the bodies and files of Responses
\* and FileStates, and empty ones.
AnyBytes == ImageBytes \cup {<<>>}
SourceWorlds(src) ==
    IF src.kind = "web"
    THEN {[resp |-> r, file |-> NoFile] :
            r \in Responses
                  \cup {[status |-> "ok", content_type |-> "image/png", content |-> <<>>]}}
    ELSE {[resp |-> NoResponse, file |-> f] :
            f \in FileStates \cup {[exists |-> TRUE, data |-> <<>>]}}

\* A source instance and the download calls made on it: for each call, what
\* it returned or raised, whether it went to the network or the file system
\* (it does unless self.data is truthy, implementations.py 36-37 and 81-82),
\* and what get_metadata answers after it.
SourceInstance(src) ==
    [kind |-> "image_source", pc |-> "idle", src |-> src, downloads |-> <<>>]

\* await image_source.download(), once more on the same instance.
DownloadAgain ==
    /\ call.kind = "image_source"
    /\ Len(call.downloads) < MaxDownloads
    /\ \E w \in SourceWorlds(call.src) : \E now \in Timestamps :
          LET d == Download(call.src, w.resp, w.file, now)
          IN  call' = [call EXCEPT
                          !.src = d.src,
                          !.downloads = Append(@, [out |-> d.out,
                                                   requested |-> ~Truthy(call.src.data),
                                                   metadata |-> GetMetadata(d.src)])]
    /\ UNCHANGED <<resources, order, files, temp_file, issued>>

SourceInit ==
    /\ resources = EmptyStore.res
    /\ order = EmptyStore.ord
    /\ files = EmptyStore.files
    /\ temp_file = EmptyStore.temp
    /\ issued = EmptyStore.issued
    /\ call \in {SourceInstance(WebImageSource("http://h/a.png")),
                 SourceInstance(LocalImageSource("/a.jpg"))}

SourceNext == DownloadAgain

SourceSpec == SourceInit /\ [][SourceNext]_vars

\* ------------------------------------------- calls that run concurrently

\* The number of calls in flight on one store.
MaxTasks == 2

\* The descriptors concurrent ingests name: a network image and a local one.
ConcDescriptors == {"http://h/a.png", "/a.jpg"}
\* The extractors concurrent extractions name.
ConcExtractors == {"tesseract", "azure"}

\* A coroutine of the event loop: the operation and its argument, where it
\* is suspended, its locals (the bytes and the metadata fetched, or the
\* bytes read and the extractor instance it created and what that returned),
\* how many calls had completed when it was last resumed, and its result.
Task(op, pc, arg, extractor_type) ==
    [op |-> op, pc |-> pc, arg |-> arg, extractor_type |-> extractor_type,
     image_data |-> None, metadata |-> None, ex |-> None, returned |-> None,
     now |-> None, before |-> None, out |-> None]
\* add_image_from_url(uri), about to create its source and await download().
IngestTask(uri) == Task("add_image_from_url", "fetch", uri, "")
\* extract_text_from_image(resource_id, extractor_type), about to start.
ExtractTask(resource_id, extractor_type) ==
    Task("extract_text_from_image", "start", resource_id, extractor_type)

\* The event loop with its coroutines, and the calls that wrote to the
\* store in the order they completed.
EventLoop(tasks) == [kind |-> "concurrent", pc |-> "running", tasks |-> tasks,
                     finished |-> <<>>]

\* Task i of the loop is at pc of op.
At(i, op, pc) ==
    /\ call.kind = "concurrent"
    /\ i \in DOMAIN call.tasks
    /\ call.tasks[i].op = op
    /\ call.tasks[i].pc = pc

\* resource_manager.py 25-27: the source is created and download() is
\* awaited; the coroutine is resumed with the bytes or with the exception.
ConcFetch(i) ==
    /\ At(i, "add_image_from_url", "fetch")
    /\ \E w \in Worlds(call.tasks[i].arg) : \E now \in Timestamps :
          LET t == [call.tasks[i] EXCEPT !.before = Some(Len(call.finished))]
              image_source == CreateImageSource(t.arg, w.file)
              d == Download(image_source.val, w.resp, w.file, now)
          IN  call' = [call EXCEPT !.tasks[i] =
                  IF ~image_source.ok
                  THEN [t EXCEPT !.pc = "done", !.out = Some(image_source)]
                  ELSE IF ~d.out.ok
                  THEN [t EXCEPT !.pc = "done", !.out = Some(d.out)]
                  ELSE [t EXCEPT !.pc = "persist", !.now = Some(now),
                                 !.image_data = Some(d.out.val),
                                 !.metadata = Some(GetMetadata(d.src).val)]]
    /\ UNCHANGED <<resources, order, files, temp_file, issued>>

\* A persist step of a store that names the record after its source.
ConcPersistByUri(i) ==
    /\ At(i, "add_image_from_url", "persist")
    /\ \E u \in NextUuid : \E io \in IoChoices :
          LET t == call.tasks[i]
              r == CacheAndIndexByUri(Store, Get(t.image_data), Get(t.metadata),
                                      [NoInput EXCEPT !.uuid = u, !.io = io,
                                                      !.now = Get(t.now)])
          IN  /\ Becomes(r.st)
              /\ call' = [call EXCEPT
                    !.tasks[i] = [t EXCEPT !.pc = "done", !.out = Some(r.out)],
                    !.finished = Append(@, i)]

\* resource_manager.py 29-50, run without suspension once download() has
\* returned: the id is drawn, the cache file written, the record inserted.
ConcPersist(i) ==
    /\ At(i, "add_image_from_url", "persist")
    /\ \E u \in NextUuid : \E io \in IoChoices :
          LET t == call.tasks[i]
              r == CacheAndIndex(Store, Get(t.image_data), Get(t.metadata),
                                 [NoInput EXCEPT !.uuid = u, !.io = io,
                                                 !.now = Get(t.now)])
          IN  /\ Becomes(r.st)
              /\ call' = [call EXCEPT
                    !.tasks[i] = [t EXCEPT !.pc = "done", !.out = Some(r.out)],
                    !.finished = Append(@, i)]

\* resource_manager.py 83-93: the id is looked up, the cache file read and
\* the call's own extractor created, up to the awaited extract_text.
ConcStart(i) ==
    /\ At(i, "extract_text_from_image", "start")
    /\ \E readable \in BOOLEAN :
       \E creds \in (IF call.tasks[i].extractor_type = "azure"
                     THEN Credentials ELSE {NoCredentials}) :
          LET t == call.tasks[i]
              known == t.arg \in DOMAIN resources
              image_data == ReadFile(Store, resources[t.arg].cache_path, readable)
              extractor == CreateExtractor(t.extractor_type, creds)
          IN  call' = [call EXCEPT !.tasks[i] =
                  IF ~known
                  THEN [t EXCEPT !.pc = "done",
                                 !.out = Some(Raise("Resource not found: " \o t.arg))]
                  ELSE IF ~image_data.ok
                  THEN [t EXCEPT !.pc = "done", !.out = Some(image_data)]
                  ELSE IF ~extractor.ok
                  THEN [t EXCEPT !.pc = "done", !.out = Some(extractor)]
                  ELSE [t EXCEPT !.pc = "provider",
                                 !.image_data = Some(image_data.val),
                                 !.ex = Some(extractor.val)]]
    /\ UNCHANGED <<resources, order, files, temp_file, issued>>

\* resource_manager.py 95, the awaited extractor.extract_text(image_data):
\* the provider works on the call's own extractor instance and the
\* coroutine is resumed with what it returned or raised.
ConcProvider(i) ==
    /\ At(i, "extract_text_from_image", "provider")
    /\ \E script \in (IF call.tasks[i].extractor_type = "tesseract"
                      THEN EngineScripts ELSE {NoScript}) :
          LET t == call.tasks[i]
              x == ExtractText(Get(t.ex), Get(t.image_data), script, temp_file)
          IN  /\ call' = [call EXCEPT !.tasks[i] =
                    [t EXCEPT !.pc = "record", !.ex = Some(x.ex),
                              !.returned = Some(x.out),
                              !.before = Some(Len(call.finished))]]
              /\ temp_file' = x.temp
    /\ UNCHANGED <<resources, order, files, issued>>

\* A record step of a manager that keeps one extractor for all calls: the
\* confidence is read from the instance the provider used last.
ConcRecordSharedExtractor(i) ==
    /\ At(i, "extract_text_from_image", "record")
    /\ \E now \in Timestamps :
          LET t == call.tasks[i]
              x == Get(t.returned)
              resource == resources[t.arg]
              last == CHOOSE j \in DOMAIN call.tasks :
                          /\ ~IsNone(call.tasks[j].returned)
                          /\ \A k \in DOMAIN call.tasks :
                                ~IsNone(call.tasks[k].returned) => k <= j
              confidence_score == GetConfidenceScore(Get(call.tasks[last].ex))
          IN  /\ resources' = [resources EXCEPT ![t.arg] =
                    IF x.ok
                    THEN RecordExtracted(resource, x.val, confidence_score,
                                         t.extractor_type, now)
                    ELSE RecordFailed(resource, x.val, t.extractor_type, now)]
              /\ call' = [call EXCEPT
                    !.tasks[i] = [t EXCEPT
                        !.pc = "done", !.now = Some(now),
                        !.out = Some(IF x.ok
                                     THEN Ok([resource_id |-> t.arg, text |-> x.val,
                                              confidence |-> confidence_score])
                                     ELSE Raise("Failed to extract text: " \o x.val))],
                    !.finished = Append(@, i)]
    /\ UNCHANGED <<order, files, temp_file, issued>>

\* resource_manager.py 96-121, run without suspension once extract_text has
\* returned: the try block records the text, the confidence of the call's
\* own extractor and the extractor type; the except block the failure.
ConcRecord(i) ==
    /\ At(i, "extract_text_from_image", "record")
    /\ \E now \in Timestamps :
          LET t == call.tasks[i]
              x == Get(t.returned)
              resource == resources[t.arg]
              confidence_score == GetConfidenceScore(Get(t.ex))
          IN  /\ resources' = [resources EXCEPT ![t.arg] =
                    IF x.ok
                    THEN RecordExtracted(resource, x.val, confidence_score,
                                         t.extractor_type, now)
                    ELSE RecordFailed(resource, x.val, t.extractor_type, now)]
              /\ call' = [call EXCEPT
                    !.tasks[i] = [t EXCEPT
                        !.pc = "done", !.now = Some(now),
                        !.out = Some(IF x.ok
                                     THEN Ok([resource_id |-> t.arg, text |-> x.val,
                                              confidence |-> confidence_score])
                                     ELSE Raise("Failed to extract text: " \o x.val))],
                    !.finished = Append(@, i)]
    /\ UNCHANGED <<order, files, temp_file, issued>>

\* Either MaxTasks ingests are in flight on an empty store, or MaxTasks
\* extractions of the one image of a store.
ConcInit ==
    \/ /\ resources = EmptyStore.res
       /\ order = EmptyStore.ord
       /\ files = EmptyStore.files
       /\ temp_file = EmptyStore.temp
       /\ issued = EmptyStore.issued
       /\ call \in {EventLoop(tasks) :
                      tasks \in [1..MaxTasks -> {IngestTask(uri) : uri \in ConcDescriptors}]}
    \/ /\ resources = StoreWithOneImage.res
       /\ order = StoreWithOneImage.ord
       /\ files = StoreWithOneImage.files
       /\ temp_file = StoreWithOneImage.temp
       /\ issued = StoreWithOneImage.issued
       /\ call \in {EventLoop(tasks) :
                      tasks \in [1..MaxTasks ->
                                   {ExtractTask(StoreWithOneImage.ord[1], e) :
                                        e \in ConcExtractors}]}

\* The event loop resumes one of the coroutines that can run.
ConcNext ==
    \/ \E i \in 1..MaxTasks : ConcFetch(i)
    \/ \E i \in 1..MaxTasks : ConcPersist(i)
    \/ \E i \in 1..MaxTasks : ConcStart(i)
    \/ \E i \in 1..MaxTasks : ConcProvider(i)
    \/ \E i \in 1..MaxTasks : ConcRecord(i)

ConcSpec == ConcInit /\ [][ConcNext]_vars

\* ------------------------------------------------------------- the claims

\* The extraction state of a record: NotExtracted until an extraction has
\* been recorded; then Failed if the text is the failure message the store
\* writes when the provider raised (with confidence 0), Extracted otherwise.
ExtractionState(resource) ==
    IF ~resource.text_extracted THEN "NotExtracted"
    ELSE IF ~IsNone(resource.extracted_text)
            /\ StartsWith(Get(resource.extracted_text), "Text extraction failed: ")
            /\ resource.confidence_score = Some(Zero)
    THEN "Failed"
    ELSE "Extracted"

\* The descriptors the ingest claims are checked for: those the model's
\* callers pass, and an https URL, a URL of another scheme, a relative path.
AnyDescriptor == Descriptors \cup {"https://h/a.png", "ftp://h/a.png", "a.jpg"}

\* The ingest that ended as r returned an id that was not a key of the index,
\* and the index and the listing are the previous ones plus one record, which
\* is NotExtracted.
AddsOneFreshRecord(r) ==
    LET id == r.out.val
    IN  /\ id \notin DOMAIN resources
        /\ DOMAIN r.st.res = DOMAIN resources \cup {id}
        /\ r.st.ord = Append(order, id)
        /\ \A k \in DOMAIN resources : r.st.res[k] = resources[k]
        /\ Len(ListResources(r.st)) = Len(ListResources(Store)) + 1
        /\ SubSeq(ListResources(r.st), 1, Len(order)) = ListResources(Store)
        /\ ListResources(r.st)[Len(order) + 1].name = id
        /\ ExtractionState(r.st.res[id]) = "NotExtracted"
        /\ ~r.st.res[id].text_extracted
        /\ IsNone(r.st.res[id].extracted_text)
        /\ IsNone(r.st.res[id].confidence_score)

\* C1: in every reachable state, every ingest (add_image_from_url,
\* add_image_from_path) that succeeds returns an id that was not a key of the
\* index; afterwards the listing is the previous listing plus one new record,
\* which is NotExtracted (text_extracted False, extracted_text and
\* confidence_score None), and every earlier record is unchanged.
C1_IngestAddsOneFreshRecord ==
    \A uri \in AnyDescriptor : \A inp \in IngestInputs(uri) :
        /\ LET r == AddImageFromUrl(Store, uri, inp)
           IN  r.out.ok => AddsOneFreshRecord(r)
        /\ LET r == AddImageFromPath(Store, uri, inp)
           IN  r.out.ok => AddsOneFreshRecord(r)

\* C1, reached: a second ingest has succeeded after the first record was
\* extracted; the new record is last and NotExtracted, the old one kept its
\* text.
C1_Witness ==
    /\ Len(order) = 2
    /\ ExtractionState(resources[order[1]]) = "Extracted"
    /\ ExtractionState(resources[order[2]]) = "NotExtracted"

\* The ids the store has handed out or could have handed out so far.
IssuedIds == {"image-" \o u : u \in issued}

\* C2: the ids of the index are pairwise distinct and, in every reachable
\* state, every ingest that succeeds (of any descriptor, also one that was
\* ingested before) returns an id that no earlier ingest returned: it is not
\* in the index and was never issued.
C2_IdsNeverReused ==
    /\ \A i, j \in 1..Len(order) : order[i] = order[j] => i = j
    /\ {order[i] : i \in 1..Len(order)} = DOMAIN resources
    /\ DOMAIN resources \subseteq IssuedIds
    /\ \A uri \in AnyDescriptor : \A inp \in IngestInputs(uri) :
        /\ LET r == AddImageFromUrl(Store, uri, inp)
           IN  r.out.ok => /\ r.out.val \notin DOMAIN resources \cup IssuedIds
                           /\ Cardinality(DOMAIN r.st.res) = Len(order) + 1
        /\ LET r == AddImageFromPath(Store, uri, inp)
           IN  r.out.ok => /\ r.out.val \notin DOMAIN resources \cup IssuedIds
                           /\ Cardinality(DOMAIN r.st.res) = Len(order) + 1

\* C2, reached: the same URL has been ingested twice and the index holds two
\* records of it under two ids.
C2_Witness ==
    /\ Len(order) = 2
    /\ order[1] # order[2]
    /\ resources[order[1]].uri = resources[order[2]].uri
    /\ resources[order[1]].uri = "http://h/a.png"

\* The messages of the failures of a source provider: the content type is
\* not allowed, the bytes are too many, the transfer failed (no connection,
\* or a non-success status), the file is missing, the descriptor is none the
\* factory knows.
SourceFailures ==
    {"Unsupported image format: ", "Image too large: ",
     "All connection attempts failed", "Client error ",
     "Image file not found: ", "Unsupported image source: "}
IsSourceFailure(out) ==
    ~out.ok /\ \E p \in SourceFailures : StartsWith(out.val, p)

\* The call that ended as r left the index, the listing and the cache
\* directory as they were.
NothingStored(r) ==
    /\ r.st.res = resources
    /\ r.st.ord = order
    /\ r.st.files = files
    /\ ListResources(r.st) = ListResources(Store)

StoreToolCalls ==
    {c \in ToolCalls :
        \/ c.name = "downloadImageFromUrl" /\ "url" \in DOMAIN c.arguments
        \/ c.name = "loadImageFromPath" /\ "path" \in DOMAIN c.arguments
        \/ c.name = "extractTextFromImage" /\ "resource_id" \in DOMAIN c.arguments}

\* What the store does under the tool call c, and the description the handler
\* puts in front of the store's message.
StoreCallOf(c, inp) ==
    IF c.name = "downloadImageFromUrl"
    THEN AddImageFromUrl(Store, c.arguments["url"], inp)
    ELSE IF c.name = "loadImageFromPath"
    THEN AddImageFromPath(Store, c.arguments["path"], inp)
    ELSE ExtractTextFromImage(Store, c.arguments["resource_id"],
                              ArgGet(c.arguments, "extractor", "tesseract"), inp)
FailurePrefix(c) ==
    IF c.name = "downloadImageFromUrl" THEN "Failed to download image: "
    ELSE IF c.name = "loadImageFromPath" THEN "Failed to load image: "
    ELSE "Failed to extract text: "

\* C4: in every reachable state, a downloadImageFromUrl, loadImageFromPath or
\* extractTextFromImage tool call with its required argument during which the
\* store or a provider fails is answered by a result (not a protocol error)
\* whose one text content describes the failure: "Failed to ...: " and the
\* message of the store's exception.
C4_ToolFailureIsAResult ==
    \A c \in StoreToolCalls : \A inp \in ToolInputs(c) :
        LET below == StoreCallOf(c, inp)
            r == CallTool(Store, c.name, c.arguments, inp)
            response == ServerCallTool(r.out)
        IN  ~below.out.ok =>
                /\ response.kind = "result"
                /\ response.content = <<TextContent(FailurePrefix(c) \o below.out.val)>>
                /\ r.st = below.st

\* C4, reached: the index holds a record, and from this state all three
\* tools meet a failure of the store (a record that cannot be extracted with
\* azure, a URL that does not answer, a path that is no image).
C4_Witness ==
    /\ Len(order) >= 1
    /\ \A n \in {"downloadImageFromUrl", "loadImageFromPath", "extractTextFromImage"} :
        \E c \in StoreToolCalls : \E inp \in ToolInputs(c) :
            /\ c.name = n
            /\ ~StoreCallOf(c, inp).out.ok
            /\ (n = "extractTextFromImage" => c.arguments["resource_id"] \in DOMAIN resources)

\* C5: in every reachable state and for every resource_id, a useTextAsContext
\* call that carries resource_id returns (it never raises) exactly one
\* embedded text/plain resource; for an id that is not in the index the
\* embedded text is a generic error description and the store is unchanged.
C5_UseTextAsContextNeverRaises ==
    \A resource_id \in ResourceIds : \A inp \in TextInputs(resource_id) :
        LET r == CallTool(Store, "useTextAsContext", [resource_id |-> resource_id], inp)
        IN  /\ r.out.ok
            /\ Len(r.out.val) = 1
            /\ r.out.val[1].type = "resource"
            /\ r.out.val[1].mimeType = "text/plain"
            /\ resource_id \notin DOMAIN resources =>
                /\ StartsWith(r.out.val[1].text, "Error retrieving text from the resource")
                /\ r.st = Store

\* C5, reached: the index holds a record that is not extracted and one whose
\* extraction failed, and there is an id it does not hold.
C5_Witness ==
    /\ \E a, b \in DOMAIN resources :
        /\ ExtractionState(resources[a]) = "NotExtracted"
        /\ ExtractionState(resources[b]) = "Failed"
    /\ \E resource_id \in ResourceIds : resource_id \notin DOMAIN resources

\* The three declared prompts, and the ids the index does not hold.
DeclaredPrompts == {"analyzeImageContent", "extractInformation", "summarizeImageText"}
UnknownIds == ResourceIds \ DOMAIN resources
\* The arguments of a prompt request that lacks nothing but a known id.
CompleteArguments(resource_id) ==
    Some([resource_id |-> resource_id, information_type |-> "dates"])

\* C6, as stated: in every reachable state, a prompt-get of a declared prompt
\* whose resource_id is not a key of the index fails (raises, which the
\* protocol reports as an error) and returns no prompt.
C6_UnknownIdPromptFails ==
    \A name \in DeclaredPrompts : \A resource_id \in UnknownIds :
        ~GetPrompt(Store, name, CompleteArguments(resource_id), NoInput).out.ok

\* C6, amended: in every reachable state, a prompt-get of a declared prompt
\* (with information_type for extractInformation) whose resource_id is not a
\* key of the index returns a prompt: its one user message carries, in the
\* place of the extracted text, the sentence "Error retrieving text from the
\* resource."; the store is unchanged.
C6_UnknownIdPromptEmbedsError ==
    \A name \in DeclaredPrompts : \A resource_id \in UnknownIds :
        LET r == GetPrompt(Store, name, CompleteArguments(resource_id), NoInput)
        IN  /\ r.out.ok
            /\ Len(r.out.val.messages) = 1
            /\ r.out.val.messages[1].role = "user"
            /\ EndsWith(r.out.val.messages[1].text,
                        ":\n\nError retrieving text from the resource.")
            /\ r.st = Store

\* C6, reached: the index holds a record, and a prompt is requested for an id
\* it does not hold.
C6_Witness ==
    /\ Len(order) = 1
    /\ \E resource_id \in UnknownIds :
        GetPrompt(Store, "summarizeImageText", CompleteArguments(resource_id), NoInput).out.ok

\* The requests that lack a required argument.
LacksArgument(c) ==
    \/ c.name = "downloadImageFromUrl" /\ "url" \notin DOMAIN c.arguments
    \/ c.name = "loadImageFromPath" /\ "path" \notin DOMAIN c.arguments
    \/ c.name \in {"extractTextFromImage", "useTextAsContext"}
        /\ "resource_id" \notin DOMAIN c.arguments
PromptLacksArgument(name, arguments) ==
    \/ IsNone(arguments)
    \/ "resource_id" \notin DOMAIN Get(arguments)
    \/ name = "extractInformation" /\ "information_type" \notin DOMAIN Get(arguments)
IsMissingArgument(out) ==
    ~out.ok /\ StartsWith(out.val, "Missing required argument")

\* C7, as stated: in every reachable state, a tool call or a prompt-get of a
\* declared prompt that lacks a required argument (url, path, resource_id, or
\* information_type for extractInformation) fails with the missing-argument
\* error and has invoked no provider: the store (the index, its records, the
\* cache directory, the extractor's temporary file) is as it was.
C7_MissingArgumentFailsFirst ==
    /\ \A c \in ToolCalls : LacksArgument(c) =>
        \A inp \in ToolInputs(c) :
            LET r == CallTool(Store, c.name, c.arguments, inp)
            IN  IsMissingArgument(r.out) /\ r.st = Store
    /\ \A name \in DeclaredPrompts : \A arguments \in PromptArguments :
        PromptLacksArgument(name, arguments) =>
            \A inp \in PromptInputs(arguments) :
                LET r == GetPrompt(Store, name, arguments, inp)
                IN  IsMissingArgument(r.out) /\ r.st = Store

\* What the provider does in an extraction of the known id resource_id with
\* extractor_type under inp, if the call gets as far as the provider: the
\* cache file is read and the factory knows the extractor.
ReachesProvider(resource_id, extractor_type, inp) ==
    /\ ReadFile(Store, resources[resource_id].cache_path, inp.readable).ok
    /\ CreateExtractor(extractor_type, inp.creds).ok
ProviderOutcome(resource_id, extractor_type, inp) ==
    ExtractText(CreateExtractor(extractor_type, inp.creds).val,
                ReadFile(Store, resources[resource_id].cache_path, inp.readable).val,
                inp.script, temp_file).out

\* C8: in every reachable state, when extract_text_from_image is called on a
\* known id and the extraction provider raises, the call raises ("Failed to
\* extract text: " and the provider's message) and the record is updated:
\* its state is Failed, its text is "Text extraction failed: " and the
\* provider's message, its confidence is 0, its extractor is the requested
\* one; no other record changes. When the provider returns, the record's
\* state is Extracted, so the two are told apart.
C8_ProviderFailureIsRecorded ==
    \A resource_id \in DOMAIN resources : \A extractor_type \in ExtractorTypes :
        \A inp \in ExtractInputs(resource_id, extractor_type) :
            ReachesProvider(resource_id, extractor_type, inp) =>
                LET x == ProviderOutcome(resource_id, extractor_type, inp)
                    r == ExtractTextFromImage(Store, resource_id, extractor_type, inp)
                    after == r.st.res[resource_id]
                IN  /\ r.out.ok = x.ok
                    /\ r.st.ord = order
                    /\ \A k \in DOMAIN resources \ {resource_id} : r.st.res[k] = resources[k]
                    /\ x.ok => ExtractionState(after) = "Extracted"
                    /\ ~x.ok =>
                        /\ r.out.val = "Failed to extract text: " \o x.val
                        /\ ExtractionState(after) = "Failed"
                        /\ after.text_extracted
                        /\ after.extracted_text = Some("Text extraction failed: " \o x.val)
                        /\ after.confidence_score = Some(Zero)
                        /\ after.text_extractor = Some(extractor_type)

\* C8, reached: a provider has failed on a record (azure without its
\* credentials), and the record says so.
C8_Witness ==
    \E resource_id \in DOMAIN resources :
        /\ ExtractionState(resources[resource_id]) = "Failed"
        /\ resources[resource_id].extracted_text
            = Some("Text extraction failed: Azure credentials not configured")
        /\ resources[resource_id].text_extractor = Some("azure")

\* C9, as stated: in every reachable state, for a known id and any requested
\* extractor, an extract_text_from_image call, whether it returns or raises,
\* leaves the record with a state other than NotExtracted and with the
\* requested extractor as its extractor. (Stated for the calls whose cache
\* file can be read: the claim fails among these already.)
C9_ExtractAlwaysUpdatesRecord ==
    \A resource_id \in DOMAIN resources : \A extractor_type \in ExtractorTypes :
        \A inp \in ExtractInputs(resource_id, extractor_type) :
            inp.readable =>
                LET r == ExtractTextFromImage(Store, resource_id, extractor_type, inp)
                    after == r.st.res[resource_id]
                IN  /\ ExtractionState(after) # "NotExtracted"
                    /\ after.text_extractor = Some(extractor_type)

\* base64 decoding, the inverse the payload's reader applies.
B64Index(c) == CHOOSE v \in 0..63 : B64Char(v) = c
RECURSIVE B64Decode(_)
B64Decode(s) ==
    IF Len(s) < 4 THEN <<>>
    ELSE
        LET a == B64Index(CharAt(s, 1))
            b == B64Index(CharAt(s, 2))
            first == <<a * 4 + b \div 16>>
        IN  IF CharAt(s, 3) = "=" THEN first
            ELSE
                LET c == B64Index(CharAt(s, 3))
                    second == <<(b % 16) * 16 + c \div 4>>
                IN  IF CharAt(s, 4) = "=" THEN first \o second
                    ELSE first \o second
                         \o <<(c % 4) * 64 + B64Index(CharAt(s, 4))>>
                         \o B64Decode(DropPrefix(s, 4))

\* The record has a recorded extraction with non-empty text.
HasText(resource) ==
    /\ ExtractionState(resource) # "NotExtracted"
    /\ ~IsNone(resource.extracted_text)
    /\ Get(resource.extracted_text) # ""
IsTextPayload(c, resource) ==
    /\ c.ok
    /\ c.val.kind = "text"
    /\ c.val.mimeType = "text/plain"
    /\ c.val.text = Get(resource.extracted_text)
IsBinaryPayload(c, resource) ==
    /\ c.ok
    /\ c.val.kind = "blob"
    /\ c.val.mimeType = resource.type
    /\ B64Decode(c.val.blob) = files[resource.cache_path]
    /\ Len(files[resource.cache_path]) = resource.size

\* C10, as stated: in every reachable state and for every record,
\* get_resource_content returns a text/plain payload with the record's text
\* exactly when the state is not NotExtracted and the text is non-empty, and
\* in every other case returns a binary payload with the record's image type
\* and the bytes cached at ingestion.
C10_ContentIsTextOrBinary ==
    \A resource_id \in DOMAIN resources : \A readable \in BOOLEAN :
        LET resource == resources[resource_id]
            c == GetResourceContent(Store, resource_id, readable)
        IN  IF HasText(resource) THEN IsTextPayload(c, resource)
            ELSE IsBinaryPayload(c, resource)

\* C10, amended: as stated when the cache file can be read; when it cannot,
\* the text case is as stated and in every other case the call raises the
\* error of the read instead of returning a payload.
C10_ContentIsTextOrBinaryIfReadable ==
    \A resource_id \in DOMAIN resources : \A readable \in BOOLEAN :
        LET resource == resources[resource_id]
            c == GetResourceContent(Store, resource_id, readable)
        IN  IF HasText(resource) THEN IsTextPayload(c, resource)
            ELSE IF readable THEN IsBinaryPayload(c, resource)
            ELSE ~c.ok /\ StartsWith(c.val, "[Errno")

\* C10, reached: the index holds a record read as text (extracted) and a
\* record read as a non-empty binary payload (not extracted).
C10_Witness ==
    \E a, b \in DOMAIN resources :
        /\ HasText(resources[a])
        /\ IsTextPayload(GetResourceContent(Store, a, TRUE), resources[a])
        /\ ~HasText(resources[b])
        /\ IsBinaryPayload(GetResourceContent(Store, b, TRUE), resources[b])
        /\ GetResourceContent(Store, b, TRUE).val.blob = "TQ=="

\* The extractors the factory knows.
KnownExtractors == {"tesseract", "azure"}
\* The records with a recorded extraction.
ExtractedIds ==
    {id \in DOMAIN resources : ExtractionState(resources[id]) # "NotExtracted"}
\* The confidence the provider reports after the attempt of the call.
ProviderConfidence(resource_id, extractor_type, inp) ==
    GetConfidenceScore(
        ExtractText(CreateExtractor(extractor_type, inp.creds).val,
                    ReadFile(Store, resources[resource_id].cache_path, inp.readable).val,
                    inp.script, temp_file).ex)

\* C11: in every reachable state, an extract_text_from_image call on a
\* record that is already Extracted or Failed, with the same or another
\* extractor, in which a new attempt is made (the cache file is read and the
\* provider runs) overwrites the record's text, confidence and extractor
\* with the results of that attempt, whatever the record held: the
\* provider's text and confidence when it returns, the failure message and
\* confidence 0 when it raises, and the requested extractor.
C11_ReextractionOverwrites ==
    \A resource_id \in ExtractedIds : \A extractor_type \in KnownExtractors :
        \A inp \in ExtractInputs(resource_id, extractor_type) :
            ReachesProvider(resource_id, extractor_type, inp) =>
                LET x == ProviderOutcome(resource_id, extractor_type, inp)
                    r == ExtractTextFromImage(Store, resource_id, extractor_type, inp)
                    after == r.st.res[resource_id]
                IN  /\ after.extracted_text =
                        Some(IF x.ok THEN x.val ELSE "Text extraction failed: " \o x.val)
                    /\ after.confidence_score =
                        Some(IF x.ok
                             THEN ProviderConfidence(resource_id, extractor_type, inp)
                             ELSE Zero)
                    /\ after.text_extractor = Some(extractor_type)
                    /\ ExtractionState(after) # "NotExtracted"

\* C11, reached: a record extracted with one extractor, and a second
\* extraction with the other extractor that changes all three fields.
C11_Witness ==
    \E resource_id \in ExtractedIds : \E extractor_type \in KnownExtractors :
        \E inp \in ExtractInputs(resource_id, extractor_type) :
            LET before == resources[resource_id]
                after == ExtractTextFromImage(Store, resource_id, extractor_type,
                                              inp).st.res[resource_id]
            IN  /\ before.text_extractor = Some("tesseract")
                /\ after.text_extractor = Some("azure")
                /\ after.extracted_text # before.extracted_text
                /\ after.confidence_score # before.confidence_score

\* The engine behaviours in which the image opens and no attempt finds
\* text: every attempt returns nothing, returns whitespace, or throws.
NoTextScripts ==
    {ScriptOf(TRUE, direct, data, psm, remove) :
        direct \in {Throws, Blank, Ok("")},
        data \in {Throws},
        psm \in {<<Throws, Throws, Throws, Throws>>, <<Blank, Blank, Blank, Blank>>,
                 <<Blank, Ok(""), Throws, Blank>>},
        remove \in BOOLEAN}

\* C12: in every reachable state, for a known id whose cache file can be
\* read, when every attempt of the tesseract extractor yields empty or
\* whitespace-only text, extract_text_from_image returns (does not raise)
\* the sentinel "No readable text found in the image." with confidence 0,
\* and the record is Extracted with the sentinel as its text, not Failed.
C12_NoTextIsASuccess ==
    \A resource_id \in DOMAIN resources : \A script \in NoTextScripts :
        \A now \in Timestamps :
            LET inp == [NoInput EXCEPT !.script = script, !.now = now]
                r == ExtractTextFromImage(Store, resource_id, "tesseract", inp)
                after == r.st.res[resource_id]
            IN  /\ r.out.ok
                /\ r.out.val.text = "No readable text found in the image."
                /\ r.out.val.confidence = Zero
                /\ ExtractionState(after) = "Extracted"
                /\ after.extracted_text = Some("No readable text found in the image.")
                /\ after.confidence_score = Some(Zero)

\* C12, reached: a record holds the sentinel as the text of a tesseract
\* extraction.
C12_Witness ==
    \E resource_id \in DOMAIN resources :
        /\ resources[resource_id].extracted_text = Some(NO_TEXT)
        /\ resources[resource_id].text_extractor = Some("tesseract")
        /\ ExtractionState(resources[resource_id]) = "Extracted"

\* C13: in every step, a record that has left NotExtracted is still in the
\* index and is Extracted or Failed; a record that is NotExtracted stays so or
\* becomes Extracted or Failed.
C13_NeverBackToNotExtracted ==
    [][\A resource_id \in DOMAIN resources :
          /\ resource_id \in DOMAIN resources'
          /\ ExtractionState(resources'[resource_id])
                \in {"NotExtracted", "Extracted", "Failed"}
          /\ ExtractionState(resources[resource_id]) # "NotExtracted" =>
                ExtractionState(resources'[resource_id]) \in {"Extracted", "Failed"}]_vars

\* C13, reached: of two records, one is Extracted and one is Failed; both
\* take further extractions.
C13_Witness ==
    /\ Len(order) = 2
    /\ ExtractionState(resources[order[1]]) = "Failed"
    /\ ExtractionState(resources[order[2]]) = "Extracted"
    /\ temp_file

\* The names of a listing, in its order.
NamesOf(listing) == [i \in 1..Len(listing) |-> listing[i].name]
\* s is an initial segment of t.
IsPrefix(s, t) == Len(s) <= Len(t) /\ SubSeq(t, 1, Len(s)) = s

\* C14: in every reachable state, list_resources has one entry per record
\* of the index, each record once; an entry's mimeType is the record's image
\* type while the record is NotExtracted and "text/plain" once an extraction
\* is recorded; an ingestion puts the new record's entry after all the
\* entries there were, and an extraction leaves the order of the entries
\* as it was.
C14_ListingFollowsIngestion ==
    LET listing == ListResources(Store)
    IN  /\ Len(listing) = Cardinality(DOMAIN resources)
        /\ {listing[i].name : i \in 1..Len(listing)} = DOMAIN resources
        /\ \A i \in 1..Len(listing) :
              LET resource == resources[listing[i].name]
              IN  listing[i].mimeType =
                      IF ExtractionState(resource) = "NotExtracted"
                      THEN resource.type ELSE "text/plain"
        /\ \A uri \in Descriptors : \A inp \in IngestInputs(uri) :
              LET r == AddImageFromUrl(Store, uri, inp)
                  after == NamesOf(ListResources(r.st))
              IN  /\ IsPrefix(NamesOf(listing), after)
                  /\ r.out.ok => /\ Len(after) = Len(listing) + 1
                                 /\ after[Len(after)] = r.out.val
        /\ \A resource_id \in ResourceIds : \A extractor_type \in ExtractorTypes :
              \A inp \in ExtractInputs(resource_id, extractor_type) :
                  LET r == ExtractTextFromImage(Store, resource_id, extractor_type, inp)
                  IN  NamesOf(ListResources(r.st)) = NamesOf(listing)

\* C14, reached: two records are listed, the first one with an extraction
\* recorded as text/plain and the second, not extracted, as an image.
C14_Witness ==
    /\ Len(order) = 2
    /\ ListResources(Store)[1].mimeType = "text/plain"
    /\ ListResources(Store)[2].mimeType \in SUPPORTED_FORMATS
    /\ ~resources[order[2]].text_extracted

\* C15: in every reachable state, get_extracted_text raises "Resource not
\* found" for an id that is not in the index; for a known id it returns the
\* record's text when an extraction is recorded and the text is not empty,
\* and None otherwise.
C15_ExtractedTextOrNone ==
    \A resource_id \in ResourceIds :
        LET out == GetExtractedText(Store, resource_id)
        IN  IF resource_id \notin DOMAIN resources
            THEN out = Raise("Resource not found: " \o resource_id)
            ELSE LET resource == resources[resource_id]
                     has_text == /\ ExtractionState(resource) # "NotExtracted"
                                 /\ ~IsNone(resource.extracted_text)
                                 /\ Get(resource.extracted_text) # ""
                 IN  /\ out.ok
                     /\ has_text => out.val = resource.extracted_text
                     /\ ~has_text => out.val = None

\* C15, reached: an unknown id, a record without an extraction and a record
\* whose extracted text is returned.
C15_Witness ==
    /\ \E resource_id \in ResourceIds : ~GetExtractedText(Store, resource_id).ok
    /\ \E resource_id \in DOMAIN resources :
          /\ ~resources[resource_id].text_extracted
          /\ GetExtractedText(Store, resource_id) = Ok(None)
    /\ \E resource_id \in DOMAIN resources :
          GetExtractedText(Store, resource_id) = Ok(Some("HELLO\n"))

\* A descriptor that names a network image.
IsNetworkLocation(uri) == StartsWith(uri, "http://") \/ StartsWith(uri, "https://")

\* C16, as stated: in every reachable state, an add_image_from_url call
\* (the downloadImageFromUrl tool) that succeeds has created its record from
\* a network image: the descriptor and the record's uri are http or https
\* locations; a local path or a file:// URI creates no record.
C16_UrlIngestIsNetworkOnly ==
    \A uri \in AnyDescriptor : \A inp \in IngestInputs(uri) :
        LET r == AddImageFromUrl(Store, uri, inp)
        IN  /\ r.out.ok => /\ IsNetworkLocation(uri)
                           /\ IsNetworkLocation(r.st.res[r.out.val].uri)
            /\ ~IsNetworkLocation(uri) => r.st.res = resources

\* The URI prefix of a resource and the id read_resource parses from a URI.
RESOURCE_URI_PREFIX == "mcp:///resource/"
ParsedId(uri) == SplitSecond(uri, RESOURCE_URI_PREFIX)
\* The URIs read in the check: those clients read, and a bare id.
AnyResourceUri == ResourceUris \cup {"image-uuid-1", "mcp:///resource/"}

\* C17: in every reachable state, read_resource raises whenever the URI
\* does not start with the resource URI prefix or the id parsed from it is
\* not a key of the index, and returns the content for every id of the
\* index whose cache file can be read.
C17_ReadResourceFailsOrSucceeds ==
    \A uri \in AnyResourceUri : \A readable \in BOOLEAN :
        LET out == ReadResource(Store, uri, readable)
            well_formed == StartsWith(uri, RESOURCE_URI_PREFIX)
        IN  /\ ~well_formed => ~out.ok
            /\ well_formed /\ ParsedId(uri) \notin DOMAIN resources => ~out.ok
            /\ well_formed /\ ParsedId(uri) \in DOMAIN resources /\ readable =>
                  /\ out.ok
                  /\ out.val.uri = RESOURCE_URI_PREFIX \o ParsedId(uri)

\* C17, reached: the URI of a record is read, and the same id under another
\* scheme and an id that is not in the index are refused.
C17_Witness ==
    \E resource_id \in DOMAIN resources :
        /\ ReadResource(Store, RESOURCE_URI_PREFIX \o resource_id, TRUE).ok
        /\ ~ReadResource(Store, "resource:///" \o resource_id, TRUE).ok
        /\ \E other \in ResourceIds \ DOMAIN resources :
              ~ReadResource(Store, RESOURCE_URI_PREFIX \o other, TRUE).ok

\* The declared tools.
DeclaredTools == {"downloadImageFromUrl", "loadImageFromPath", "extractTextFromImage",
                  "useTextAsContext"}

\* C18, as stated: in every reachable state, a tool call or a prompt-get
\* whose name is not a declared tool or prompt fails with the
\* unknown-operation error, whatever its arguments.
C18_UnknownNameFails ==
    /\ \A c \in ToolCalls : c.name \notin DeclaredTools =>
          \A inp \in ToolInputs(c) :
              CallTool(Store, c.name, c.arguments, inp).out
                  = Raise("Unknown tool: " \o c.name)
    /\ \A name \in PromptNames \ DeclaredPrompts : \A arguments \in PromptArguments :
          \A inp \in PromptInputs(arguments) :
              GetPrompt(Store, name, arguments, inp).out
                  = Raise("Unknown prompt: " \o name)

\* What an extraction can meet, whether or not the id is known.
AnyExtractInputs ==
    {[NoInput EXCEPT !.readable = readable, !.script = script, !.creds = creds] :
        readable \in BOOLEAN, script \in EngineScripts, creds \in Credentials}

\* C19: in every reachable state, extract_text_from_image with an id that
\* is not a key of the index raises "Resource not found", whatever the
\* extractor, and leaves the store as it was: the index, every record, the
\* cache directory, and the extractor's temporary file (no provider ran).
C19_UnknownIdExtractionFails ==
    \A resource_id \in UnknownIds : \A extractor_type \in ExtractorTypes :
        \A inp \in AnyExtractInputs :
            LET r == ExtractTextFromImage(Store, resource_id, extractor_type, inp)
            IN  /\ r.out = Raise("Resource not found: " \o resource_id)
                /\ r.st = Store

\* C19, reached: the index holds a record without an extraction, and an
\* extraction of another id is refused.
C19_Witness ==
    /\ \E resource_id \in DOMAIN resources : ~resources[resource_id].text_extracted
    /\ ~temp_file
    /\ \E resource_id \in UnknownIds :
          ~ExtractTextFromImage(Store, resource_id, "tesseract", NoInput).out.ok

\* C20: in every step, every record of the index stays in the index with
\* its id, uri, type, size, created_at and cache_path as they were, the
\* ingestion order of the records there were is kept, and a step that adds
\* a record changes no other record.
C20_RecordsAreKept ==
    [][/\ \A resource_id \in DOMAIN resources :
             /\ resource_id \in DOMAIN resources'
             /\ \A field \in {"id", "uri", "type", "size", "created_at", "cache_path"} :
                   resources'[resource_id][field] = resources[resource_id][field]
             /\ DOMAIN resources' # DOMAIN resources =>
                   resources'[resource_id] = resources[resource_id]
       /\ IsPrefix(order, order')]_vars

\* C20, reached: two records with an extraction recorded each, with the
\* identity they were ingested with.
C20_Witness ==
    /\ Len(order) = 2
    /\ \A resource_id \in DOMAIN resources :
          /\ resources[resource_id].text_extracted
          /\ resources[resource_id].id = resource_id
          /\ resources[resource_id].type \in SUPPORTED_FORMATS
          /\ resources[resource_id].cache_path \in DOMAIN files

\* The cache files the records of the index refer to.
ReferencedBlobs == {resources[id].cache_path : id \in DOMAIN resources}

\* C21, as stated: in every reachable state, the files of the cache
\* directory are exactly the cache files the records of the index refer to:
\* every record's cache_path names an existing file and there is no file
\* without a record, also after an ingest that failed.
C21_BlobIffRecord ==
    DOMAIN files = ReferencedBlobs

\* C22: in every reachable state and for every record, while the record is
\* NotExtracted its extracted_text, confidence_score, text_extractor and
\* text_extraction_time are all unset; once it is not, extracted_text is a
\* non-empty string, confidence_score is a number from 0 to 100 and
\* text_extractor is set.
C22_ExtractionFieldsFollowState ==
    \A resource_id \in DOMAIN resources :
        LET resource == resources[resource_id]
        IN  IF ExtractionState(resource) = "NotExtracted"
            THEN /\ IsNone(resource.extracted_text)
                 /\ IsNone(resource.confidence_score)
                 /\ IsNone(resource.text_extractor)
                 /\ IsNone(resource.text_extraction_time)
            ELSE /\ ~IsNone(resource.extracted_text)
                 /\ Len(Get(resource.extracted_text)) > 0
                 /\ ~IsNone(resource.confidence_score)
                 /\ FracLeq(Zero, Get(resource.confidence_score))
                 /\ FracLeq(Get(resource.confidence_score), Frac(100, 1))
                 /\ ~IsNone(resource.text_extractor)
                 /\ Get(resource.text_extractor) \in KnownExtractors

\* C22, reached: a record without an extraction, and a record whose
\* confidence is the mean of the token scores 90 and 70.
C22_Witness ==
    /\ \E resource_id \in DOMAIN resources :
          /\ ExtractionState(resources[resource_id]) = "NotExtracted"
          /\ IsNone(resources[resource_id].text_extraction_time)
    /\ \E resource_id \in DOMAIN resources :
          /\ ExtractionState(resources[resource_id]) = "Extracted"
          /\ resources[resource_id].confidence_score = Some(Frac(80, 1))

\* What the source of an ingest delivers: its content type and its bytes,
\* when the source answers at all.
Delivered(uri, inp) ==
    IF IsNetworkLocation(uri)
    THEN IF inp.resp.status = "ok"
         THEN Some([type |-> Some(inp.resp.content_type), data |-> inp.resp.content])
         ELSE None
    ELSE LET path == IF StartsWith(uri, "file://") THEN DropPrefix(uri, 7) ELSE uri
         IN  IF PathExists(path, inp.file)
             THEN Some([type |-> GuessType(path), data |-> inp.file.data])
             ELSE None
\* The two ingest operations of the store.
Ingest(by_url, uri, inp) ==
    IF by_url THEN AddImageFromUrl(Store, uri, inp) ELSE AddImageFromPath(Store, uri, inp)

UseTextAsContext(resource_id, inp) ==
    CallTool(Store, "useTextAsContext", [resource_id |-> resource_id], inp)
EmbeddedText(r) == r.out.val[1].text
\* What a first extraction can meet: the inputs of an extraction with the
\* default extractor.
FirstExtractionInputs(resource_id) == ExtractInputs(resource_id, "tesseract")

\* C24: in every reachable state and for every known id: when the record
\* has no extracted text, useTextAsContext has the effect on the store of
\* one extract_text_from_image call with the tesseract extractor; if that
\* extraction returns, the record is Extracted and the embedded text is the
\* record's extracted_text, and if it raises, the embedded text is the
\* placeholder sentence. When the record has a non-empty extracted text,
\* useTextAsContext embeds that text and leaves the store as it was,
\* whatever an extraction would have met.
C24_LazyExtractionOnce ==
    \A resource_id \in DOMAIN resources :
        LET resource == resources[resource_id]
        IN  IF HasText(resource)
            THEN \A inp \in FirstExtractionInputs(resource_id) :
                    LET r == UseTextAsContext(resource_id, inp)
                    IN  /\ r.out.ok
                        /\ EmbeddedText(r) = Get(resource.extracted_text)
                        /\ r.st = Store
            ELSE \A inp \in FirstExtractionInputs(resource_id) :
                    LET r == UseTextAsContext(resource_id, inp)
                        e == ExtractTextFromImage(Store, resource_id, "tesseract", inp)
                        after == r.st.res[resource_id]
                    IN  /\ r.out.ok
                        /\ r.st = e.st
                        /\ e.out.ok =>
                              /\ ExtractionState(after) = "Extracted"
                              /\ after.text_extractor = Some("tesseract")
                              /\ EmbeddedText(r) = Get(after.extracted_text)
                        /\ ~e.out.ok => EmbeddedText(r) = EXTRACTION_PLACEHOLDER

\* C24, reached: a record without text for which one useTextAsContext call
\* extracts and another embeds the placeholder, next to a record with text.
C24_Witness ==
    /\ \E resource_id \in DOMAIN resources :
          /\ ~HasText(resources[resource_id])
          /\ \E inp \in FirstExtractionInputs(resource_id) :
                EmbeddedText(UseTextAsContext(resource_id, inp)) = "HELLO\n"
          /\ \E inp \in FirstExtractionInputs(resource_id) :
                EmbeddedText(UseTextAsContext(resource_id, inp)) = EXTRACTION_PLACEHOLDER
    /\ \E resource_id \in DOMAIN resources :
          /\ HasText(resources[resource_id])
          /\ resources[resource_id].text_extractor = Some("tesseract")

\* The records whose last extraction failed in the provider.
FailedIds == {id \in DOMAIN resources : ExtractionState(resources[id]) = "Failed"}

\* C25: in every reachable state, for every record whose extraction failed
\* in the provider, get_extracted_text returns the stored failure message,
\* get_resource_content returns it as a text/plain text payload whether or
\* not the cache file can be read, and useTextAsContext and every declared
\* prompt embed the stored failure message and leave the store as it was
\* (no new extraction), whatever an extraction would have met.
C25_FailureIsSurfacedAsText ==
    \A resource_id \in FailedIds :
        LET resource == resources[resource_id]
            message == Get(resource.extracted_text)
        IN  /\ StartsWith(message, "Text extraction failed: ")
            /\ GetExtractedText(Store, resource_id) = Ok(Some(message))
            /\ \A readable \in BOOLEAN :
                  IsTextPayload(GetResourceContent(Store, resource_id, readable), resource)
            /\ \A inp \in FirstExtractionInputs(resource_id) :
                  /\ LET r == UseTextAsContext(resource_id, inp)
                     IN  r.out.ok /\ EmbeddedText(r) = message /\ r.st = Store
                  /\ \A name \in DeclaredPrompts :
                        LET p == GetPrompt(Store, name, CompleteArguments(resource_id), inp)
                        IN  /\ p.out.ok
                            /\ EndsWith(p.out.val.messages[1].text, "\n\n" \o message)
                            /\ p.st = Store

\* C25, reached: a Failed record whose failure message is read back as the
\* content of the resource.
C25_Witness ==
    \E resource_id \in FailedIds :
        /\ GetResourceContent(Store, resource_id, FALSE).ok
        /\ GetResourceContent(Store, resource_id, FALSE).val.text
              = "Text extraction failed: Azure credentials not configured"
        /\ ~temp_file

\* C30: in every reachable state, the azure extractor raises "Azure
\* credentials not configured" whenever its api key or its endpoint is not
\* set and returns only when both are set; for a known id with a readable
\* cache file, extract_text_from_image with "azure" and a credential
\* missing raises, and the record then holds the failure message as its
\* text, confidence 0 and extractor "azure".
C30_AzureNeedsBothCredentials ==
    /\ \A creds \in Credentials : \A image_data \in ImageBytes :
          LET x == AzureExtractText(AzureTextExtractor(creds), image_data)
          IN  /\ x.out.ok <=> (creds.api_key /\ creds.endpoint)
              /\ ~x.out.ok => x.out = Raise("Azure credentials not configured")
    /\ \A resource_id \in DOMAIN resources : \A creds \in Credentials :
          \A now \in Timestamps :
              ~(creds.api_key /\ creds.endpoint) =>
                  LET inp == [NoInput EXCEPT !.creds = creds, !.now = now]
                      r == ExtractTextFromImage(Store, resource_id, "azure", inp)
                      after == r.st.res[resource_id]
                  IN  /\ r.out = Raise("Failed to extract text: "
                                       \o "Azure credentials not configured")
                      /\ after.extracted_text =
                            Some("Text extraction failed: Azure credentials not configured")
                      /\ after.confidence_score = Some(Zero)
                      /\ after.text_extractor = Some("azure")
                      /\ ExtractionState(after) = "Failed"

\* C30, reached: one record failed with azure for want of a credential and
\* another was extracted by azure with both credentials set.
C30_Witness ==
    \E a, b \in DOMAIN resources :
        /\ ExtractionState(resources[a]) = "Failed"
        /\ resources[a].text_extractor = Some("azure")
        /\ ExtractionState(resources[b]) = "Extracted"
        /\ resources[b].text_extractor = Some("azure")
        /\ resources[b].extracted_text = Some("Azure OCR implementation placeholder")

\* The settings of the attempts in the order the extractor is to try them:
\* the default settings (0), then the page segmentation modes.
STRATEGIES == <<0, 6, 3, 4, 11>>
\* An attempt that threw, or returned nothing but whitespace.
IsBlankAttempt(o) ==
    ~o.ok \/ \A i \in 1..Len(o.val) : IsSpace(CharAt(o.val, i))
IsExtraction == call.kind = "extract_text_from_image"
IsIngest == call.kind = "add_image_from_url"
\* The extractor has returned text the engine produced.
ReturnedEngineText ==
    /\ IsExtraction
    /\ ~IsNone(call.returned)
    /\ Len(call.calls) > 0
    /\ ~IsBlankAttempt(call.calls[Len(call.calls)].out)

\* C26: at every point of an extraction with the tesseract extractor, the
\* attempts made so far are the first ones of the order default, 6, 3, 4,
\* 11, and every attempt but the last one made threw or yielded empty or
\* whitespace-only text (so no attempt follows one that found text); once
\* the extractor has returned from an opened image, it has returned the text
\* of its last attempt if that found text, and otherwise has made all five
\* attempts and returned the no-text sentence.
C26_StrategiesInOrder ==
    IsExtraction =>
        LET made == call.calls
            n == Len(made)
        IN  /\ n <= Len(STRATEGIES)
            /\ \A i \in 1..n : made[i].mode = STRATEGIES[i]
            /\ \A i \in 1..(n - 1) : IsBlankAttempt(made[i].out)
            /\ ~IsNone(call.returned) /\ call.opened = Some(TRUE) =>
                  IF n > 0 /\ ~IsBlankAttempt(made[n].out)
                  THEN call.returned = Some(Ok(made[n].out.val))
                  ELSE n = Len(STRATEGIES) /\ call.returned = Some(Ok(NO_TEXT))

\* C26, reached: the default attempt returned whitespace, mode 6 threw,
\* mode 3 returned nothing and mode 4 found the text that is returned; mode
\* 11 was not tried.
C26_Witness ==
    /\ IsExtraction
    /\ Len(call.calls) = 4
    /\ call.calls[1].out = Ok(" \n")
    /\ ~call.calls[2].out.ok
    /\ call.calls[3].out = Ok("")
    /\ call.calls[4].mode = 4
    /\ call.returned = Some(Ok("HELLO\n"))

\* The non-negative token scores the engine reported during the call.
ReportedScores ==
    IF ~IsNone(call.data) /\ Get(call.data).ok
    THEN NonNegative(Get(call.data).val) ELSE <<>>

\* C27, as stated: whenever the tesseract extractor has returned text the
\* engine produced, its confidence is the mean of the non-negative token
\* scores the engine reported, and the default confidence 50 when no
\* non-negative token score is available.
C27_ConfidenceIsMeanOrDefault ==
    ReturnedEngineText =>
        call.ex.last_confidence =
            IF Len(ReportedScores) > 0 THEN Mean(ReportedScores) ELSE DEFAULT_CONFIDENCE

\* C28: at every point of an extraction with the tesseract extractor,
\* what the extractor returned is a text, never an exception; when the
\* image could not be opened it is an error description with confidence 0;
\* and when the cache file was read, the store's call has returned
\* normally and the record is Extracted with the returned text.
C28_LocalExtractorNeverRaises ==
    IsExtraction =>
        /\ ~IsNone(call.returned) => Get(call.returned).ok
        /\ ~IsNone(call.returned) /\ call.opened = Some(FALSE) =>
              /\ StartsWith(Get(call.returned).val, "Error extracting text: ")
              /\ GetConfidenceScore(call.ex) = Zero
        /\ call.pc = "done" /\ call.readable = Some(TRUE) =>
              /\ Get(call.out).ok
              /\ Get(call.out).val.text = Get(call.returned).val
              /\ ExtractionState(resources[call.resource_id]) = "Extracted"
              /\ resources[call.resource_id].extracted_text
                    = Some(Get(call.returned).val)

\* C28, reached: the image could not be opened and the record is Extracted
\* with the error description as its text.
C28_Witness ==
    /\ IsExtraction
    /\ call.pc = "done"
    /\ call.opened = Some(FALSE)
    /\ ExtractionState(resources[call.resource_id]) = "Extracted"
    /\ StartsWith(Get(resources[call.resource_id].extracted_text),
                  "Error extracting text: ")

\* What the engine did during the call followed, as the script of one
\* extract_text call; the attempts that were not made are filled in as
\* throwing.
ScriptOfCall ==
    ScriptOf(call.opened = Some(TRUE),
             IF Len(call.calls) > 0 THEN call.calls[1].out ELSE Throws,
             IF IsNone(call.data) THEN Throws ELSE Get(call.data),
             [i \in 1..Len(psm_modes) |->
                 IF Len(call.calls) > i THEN call.calls[i + 1].out ELSE Throws],
             IF IsNone(call.removed) THEN TRUE ELSE Get(call.removed))
OrElse(o, default) == IF IsNone(o) THEN default ELSE Get(o)
\* The finished call left the store, and returned, what the operation taken
\* as one step leaves and returns for the same outside.
AgreesWithOneStep ==
    call.pc = "done" =>
        IF IsExtraction THEN
            LET inp == [NoInput EXCEPT !.readable = Get(call.readable),
                                       !.script = ScriptOfCall,
                                       !.now = OrElse(call.now, "")]
                r == ExtractTextFromImage(StoreWithOneImage, call.resource_id,
                                          "tesseract", inp)
            IN  /\ r.st = Store
                /\ r.out = Get(call.out)
                /\ call.readable = Some(TRUE) =>
                      TesseractExtractText(TesseractTextExtractor, <<77>>, ScriptOfCall,
                                           FALSE).attempts = Len(call.calls)
        ELSE
            LET inp == call.fetches[1] @@ [now |-> Get(call.now),
                                           uuid |-> OrElse(call.uuid, ""),
                                           io |-> OrElse(call.io, IoOk)]
                r == AddImageFromUrl(StoreWithOneImage, call.uri, inp)
            IN  r.st = Store /\ r.out = Get(call.out)

\* The bounds of one call.
CallIsBounded ==
    /\ IsExtraction =>
          /\ Len(call.calls) <= 1 + Len(psm_modes)
          /\ \A i, j \in 1..Len(call.calls) :
                call.calls[i].mode = call.calls[j].mode => i = j
          /\ call.invocations <= 1
    /\ IsIngest => Len(call.fetches) <= 1

\* C29: every extraction with the tesseract extractor and every ingest
\* comes to its end; an extraction makes at most five image_to_string
\* calls, no two with the same settings, in at most one extract_text call
\* of the store (a failed extraction is not tried again); an ingest asks its
\* source at most once (a failed fetch is not tried again); and each ends as
\* the operation taken as one step does.
C29_BoundedAttemptsNoRetry ==
    /\ [](CallIsBounded /\ AgreesWithOneStep)
    /\ <>(call.pc = "done")

\* C29, reached: an extraction that made all five attempts and found no
\* text has ended.
C29_Witness ==
    /\ IsExtraction
    /\ call.pc = "done"
    /\ Len(call.calls) = 5
    /\ call.invocations = 1
    /\ Get(call.out).val.text = NO_TEXT

\* The download calls made on the source instance, by their position.
Downloads == IF call.kind = "image_source" THEN call.downloads ELSE <<>>

\* C31, as stated: on one source instance, once a download has returned,
\* every later download returns the same bytes, get_metadata answers the
\* same metadata, and the later download does not go to the network or the
\* file system, whatever the source holds by then.
C31_FetchIsIdempotent ==
    \A i, j \in 1..Len(Downloads) :
        i < j /\ Downloads[i].out.ok =>
            /\ Downloads[j].out = Downloads[i].out
            /\ Downloads[j].metadata = Downloads[i].metadata
            /\ ~Downloads[j].requested

\* C38, as stated: on one source instance, no download returns more than
\* MAX_IMAGE_SIZE bytes; once a download has raised "Image too large",
\* every later download on the instance raises as well and get_metadata
\* never succeeds.
C38_OversizeNeverReturned ==
    /\ \A i \in 1..Len(Downloads) :
          Downloads[i].out.ok => Len(Downloads[i].out.val) <= MAX_IMAGE_SIZE
    /\ \A i, j \in 1..Len(Downloads) :
          /\ i <= j
          /\ ~Downloads[i].out.ok
          /\ StartsWith(Downloads[i].out.val, "Image too large")
          => ~Downloads[j].out.ok /\ ~Downloads[j].metadata.ok

\* The path a local descriptor names.
LocalPath(uri) == IF StartsWith(uri, "file://") THEN DropPrefix(uri, Len("file://")) ELSE uri

\* C32: in every reachable state and for both ingest operations, the
\* descriptor alone selects the source. An http:// or https:// descriptor
\* is fetched from the network: a record it creates has the descriptor as
\* its uri and the type and bytes of the response. A file:// descriptor or an
\* existing path is read from the file system under the path without the
\* file:// prefix: a record it creates has uri file://<path> and the bytes
\* of the file, and a file:// descriptor whose path does not exist raises
\* "Image file not found" and creates no record. Any other descriptor
\* raises "Unsupported image source" and leaves the store as it was.
C32_DescriptorSelectsSource ==
    \A by_url \in BOOLEAN : \A uri \in AnyDescriptor : \A inp \in IngestInputs(uri) :
        LET r == Ingest(by_url, uri, inp)
            path == LocalPath(uri)
        IN  IF IsNetworkLocation(uri) THEN
                /\ inp.resp.status # "ok" => ~r.out.ok /\ r.st.res = resources
                /\ r.out.ok =>
                      LET resource == r.st.res[r.out.val]
                      IN  /\ resource.uri = uri
                          /\ resource.type = inp.resp.content_type
                          /\ r.st.files[resource.cache_path] = inp.resp.content
            ELSE IF StartsWith(uri, "file://") \/ PathExists(uri, inp.file) THEN
                /\ ~PathExists(path, inp.file) =>
                      /\ r.out = Raise("Image file not found: " \o path)
                      /\ r.st = Store
                /\ r.out.ok =>
                      LET resource == r.st.res[r.out.val]
                      IN  /\ resource.uri = "file://" \o path
                          /\ Some(resource.type) = GuessType(path)
                          /\ r.st.files[resource.cache_path] = inp.file.data
            ELSE
                /\ r.out = Raise("Unsupported image source: " \o uri)
                /\ r.st = Store

\* C32, reached: two records read from the same local file, one named by
\* its path and one by a file:// descriptor, while a relative name and an
\* ftp descriptor are refused.
C32_Witness ==
    /\ Len(order) = 2
    /\ \A resource_id \in DOMAIN resources : resources[resource_id].uri = "file:///a.jpg"
    /\ \A uri \in {"a.jpg", "ftp://h/a.png"} : \E inp \in IngestInputs(uri) :
          ~Ingest(TRUE, uri, inp).out.ok

\* The prompt requests that fail.
PromptFails(name, arguments, inp) == ~GetPrompt(Store, name, arguments, inp).out.ok

\* C33, as stated: in every reachable state, a prompt-get that fails (an
\* unknown prompt name, or extractInformation without information_type)
\* leaves every record of the store as it was.
C33_FailingPromptChangesNothing ==
    \A name \in PromptNames : \A arguments \in PromptArguments :
        \A inp \in PromptInputs(arguments) :
            PromptFails(name, arguments, inp) =>
                GetPrompt(Store, name, arguments, inp).st.res = resources

\* C34: in every reachable state, every entry of list_resources has a URI
\* of the form read_resource accepts, the id parsed from that URI is the
\* entry's name and the id of a record, and read_resource of that URI is
\* never refused as malformed or not found: it returns the content
\* get_resource_content returns for that record, under the same URI, and
\* fails only when the cache file cannot be read.
C34_ListedUriReads ==
    LET listing == ListResources(Store)
    IN  \A i \in DOMAIN listing : \A readable \in BOOLEAN :
            LET entry == listing[i]
                r == ReadResource(Store, entry.uri, readable)
                c == GetResourceContent(Store, entry.name, readable)
            IN  /\ ParsedId(entry.uri) = entry.name
                /\ entry.name \in DOMAIN resources
                /\ resources[entry.name].id = entry.name
                /\ r.ok = c.ok
                /\ r.ok => r = c /\ r.val.uri = entry.uri
                /\ readable => r.ok
                /\ ~r.ok =>
                      /\ ~IsPrefix("Invalid resource URI format", r.val)
                      /\ ~IsPrefix("Failed to read resource: Resource not found", r.val)

\* C34, reached: a listing of two entries, one of an image and one of an
\* extracted text, both of which read back.
C34_Witness ==
    LET listing == ListResources(Store)
    IN  /\ Len(listing) = 2
        /\ \E i, j \in DOMAIN listing :
              /\ ReadResource(Store, listing[i].uri, TRUE).val.kind = "blob"
              /\ ReadResource(Store, listing[j].uri, TRUE).val.kind = "text"

\* The entry list_resources shows for a record.
ListedEntry(resource_id) ==
    LET listing == ListResources(Store)
    IN  listing[CHOOSE i \in DOMAIN listing : listing[i].name = resource_id]

\* C35: in every reachable state and for every record, list_resources
\* shows text/plain exactly when get_resource_content returns a text
\* payload; otherwise it shows the mimeType of the binary payload that
\* get_resource_content returns when the cache file can be read.
C35_ListingAgreesWithContent ==
    \A resource_id \in DOMAIN resources : \A readable \in BOOLEAN :
        LET entry == ListedEntry(resource_id)
            c == GetResourceContent(Store, resource_id, readable)
        IN  /\ entry.mimeType = "text/plain" <=> c.ok /\ c.val.kind = "text"
            /\ c.ok /\ c.val.kind = "blob" => entry.mimeType = c.val.mimeType
            /\ readable => c.ok /\ c.val.mimeType = entry.mimeType

\* C35, reached: a record whose extraction failed is listed and read as
\* text, next to one that is listed and read as an image.
C35_Witness ==
    \E failed, image \in DOMAIN resources :
        /\ ExtractionState(resources[failed]) = "Failed"
        /\ ListedEntry(failed).mimeType = "text/plain"
        /\ GetResourceContent(Store, failed, TRUE).val.kind = "text"
        /\ ExtractionState(resources[image]) = "NotExtracted"
        /\ ListedEntry(image).mimeType = GetResourceContent(Store, image, TRUE).val.mimeType

\* A step of one of the operations that only read the store.
ReadOnlyStep ==
    \/ DoListResources
    \/ DoGetResourceContent
    \/ DoGetExtractedText
    \/ DoGetResource
    \/ DoReadResource

\* C39: no step of list_resources, get_resource_content,
\* get_extracted_text, get_resource or read_resource, whether it returns or
\* raises, changes the index, a field of a record, the cache directory, the
\* temporary file or the ids issued; so whatever operation comes next
\* starts from the same store and gives the same result however often
\* these were called before it.
C39_ReadsChangeNothing ==
    [][ReadOnlyStep => UNCHANGED <<resources, order, files, temp_file, issued>>]_vars

\* C39, reached: a store of an extracted and a not extracted record in
\* which each read-only operation has a request it answers and one it
\* refuses.
C39_Witness ==
    /\ \E a, b \in DOMAIN resources :
          /\ resources[a].text_extracted /\ ~resources[b].text_extracted
          /\ GetResource(Store, a).ok
          /\ GetExtractedText(Store, a).ok
          /\ GetResourceContent(Store, b, TRUE).ok
          /\ ~GetResourceContent(Store, b, FALSE).ok
          /\ ReadResource(Store, "mcp:///resource/" \o b, TRUE).ok
    /\ Len(ListResources(Store)) = 2
    /\ ~GetResource(Store, "image-none").ok
    /\ ~GetResourceContent(Store, "image-none", TRUE).ok
    /\ ~ReadResource(Store, "resource:///image-uuid-1", TRUE).ok

\* C40, as stated: once the local extractor has returned from a call in
\* which it wrote the temporary image file, that file is gone.
C40_TempFileRemoved ==
    IsExtraction /\ call.opened = Some(TRUE) /\ ~IsNone(call.returned) => ~temp_file

\* The calls of the event loop, and the ingests among them that returned
\* an id.
Tasks == IF call.kind = "concurrent" THEN call.tasks ELSE <<>>
IngestTasks == {i \in DOMAIN Tasks : Tasks[i].op = "add_image_from_url"}
Succeeded == {i \in IngestTasks : Tasks[i].pc = "done" /\ Get(Tasks[i].out).ok}

\* C36: while ingests interleave at their awaited download, the calls
\* that have succeeded returned pairwise distinct ids; each of these ids
\* names a record of the index that carries the uri and the size of what
\* that call fetched, and whose cache file, shared with no other record,
\* holds the bytes that call fetched; and the index holds exactly one
\* record per successful call, so none was lost or overwritten.
C36_ConcurrentIngestsKeepApart ==
    IngestTasks # {} =>
        /\ \A i, j \in Succeeded :
              i # j => Get(Tasks[i].out).val # Get(Tasks[j].out).val
        /\ \A i \in Succeeded :
              LET resource_id == Get(Tasks[i].out).val
              IN  /\ resource_id \in DOMAIN resources
                  /\ LET resource == resources[resource_id]
                     IN  /\ resource.id = resource_id
                         /\ resource.uri = Get(Tasks[i].metadata).uri
                         /\ resource.size = Len(Get(Tasks[i].image_data))
                         /\ resource.cache_path \in DOMAIN files
                         /\ files[resource.cache_path] = Get(Tasks[i].image_data)
        /\ \A a, b \in DOMAIN resources :
              a # b => resources[a].cache_path # resources[b].cache_path
        /\ Cardinality(DOMAIN resources) = Cardinality(Succeeded)
        /\ Len(order) = Cardinality(Succeeded)

\* C36, reached: two ingests of the same network image were both suspended
\* at the download before either wrote, and both have succeeded, the
\* second before the first, each with a record and a cache file of its own.
C36_Witness ==
    /\ Succeeded = {1, 2}
    /\ Tasks[1].arg = Tasks[2].arg
    /\ IsNetworkLocation(Tasks[1].arg)
    /\ Tasks[1].before = Some(0) /\ Tasks[2].before = Some(0)
    /\ call.finished = <<2, 1>>
    /\ order = <<Get(Tasks[2].out).val, Get(Tasks[1].out).val>>
    /\ Cardinality(DOMAIN files) = 2

\* The extractions of the event loop that reached the provider, and the
\* triple each attempt produced: what the try block records of the text
\* returned, or the except block of the exception raised.
ExtractTasks == {i \in DOMAIN Tasks : Tasks[i].op = "extract_text_from_image"}
AttemptTriple(t) ==
    LET x == Get(t.returned)
    IN  IF x.ok
        THEN <<Some(x.val), Some(Get(t.ex).last_confidence), Some(t.extractor_type)>>
        ELSE <<Some("Text extraction failed: " \o x.val), Some(Zero),
               Some(t.extractor_type)>>
RecordTriple(resource) ==
    <<resource.extracted_text, resource.confidence_score, resource.text_extractor>>

\* C37: while extractions of one id interleave at the awaited provider
\* call, the text, the confidence and the extractor of the record are,
\* in every state, all unset if no attempt has been recorded yet, and
\* otherwise all three those of the attempt that was recorded last; so
\* they are never mixed from two attempts, and once every call has
\* completed they are those of the attempt that finished last.
C37_RecordIsOfOneAttempt ==
    ExtractTasks # {} =>
        LET resource == resources[Tasks[1].arg]
        IN  IF call.finished = <<>>
            THEN /\ ~resource.text_extracted
                 /\ RecordTriple(resource) = <<None, None, None>>
            ELSE /\ resource.text_extracted
                 /\ RecordTriple(resource) =
                        AttemptTriple(Tasks[call.finished[Len(call.finished)]])

\* C37, reached: a tesseract and an azure extraction of the same image
\* were both resumed from the provider before either was recorded, they
\* produced different triples, and both have completed, the second first.
C37_Witness ==
    /\ ExtractTasks = {1, 2}
    /\ Tasks[1].extractor_type = "tesseract" /\ Tasks[2].extractor_type = "azure"
    /\ Tasks[1].before = Some(0) /\ Tasks[2].before = Some(0)
    /\ call.finished = <<2, 1>>
    /\ AttemptTriple(Tasks[1])[1] # AttemptTriple(Tasks[2])[1]
    /\ AttemptTriple(Tasks[1])[2] # AttemptTriple(Tasks[2])[2]
    /\ RecordTriple(resources[Tasks[1].arg]) = AttemptTriple(Tasks[1])

=============================================================================
